---- MODULE Spec2Model ----
(***************************************************************************)
(* A model of the two command-line tools of the repository:                *)
(*   - claudemd_generator.py: section renderers and assemble               *)
(*   - prompt_generator.py: use_template, the prompt builder, the store    *)
(*                                                                         *)
(* Text conventions.  A Python string is modelled as the sequence of its   *)
(* lines (the result of s.split("\n")), so "" is <<"">> and "a\n" is       *)
(* <<"a", "">>.  "\n".join(parts) is then the concatenation of the line    *)
(* sequences of the parts.  A line is a TLA+ string built with \o exactly  *)
(* as the f-string in the source builds it.  The module text is ASCII, so  *)
(* the Chinese literals of the source are written in pinyin and the two    *)
(* emoji markers as (X) and (!); a backquote is written as a single quote.    *)
(***************************************************************************)
EXTENDS Naturals, Integers, Sequences, FiniteSets, TLC

VARIABLES
    cfg,        \* the Configuration Mapping (a Python dict: a function on the present keys)
    cfg0,       \* the mapping as it was handed to the first assemble call
    lang,       \* the process-wide _LANG flag
    doc,        \* the document returned by the last assemble call (<<>>: none yet)
    asmCount,   \* number of assemble calls made on cfg
    asmLangs,   \* the value of _LANG at each of these calls
    tpl,        \* use_template: the Template Record in use
    values,     \* use_template: the dict of collected values
    rendered,   \* use_template: the rendered text
    usePc,      \* use_template: where the call stands
    fields,     \* build_prompt: the five collected fields
    styleInput, \* build_prompt: the stripped answer to the style question
    prompt,     \* build_prompt: the prompt built
    buildPc,    \* build_prompt: where the call stands
    file,       \* the persisted store file custom_templates.json
    builtin,    \* the module-level dict BUILTIN_TEMPLATES
    lastOp,     \* the store operation last run, with its inputs
    msg,        \* what that operation reported
    shown,      \* the ids or the prompt that operation displayed
    saved,      \* the dict handed to the last save_custom_templates call
    wizPc,      \* cmd_wizard: where the flow stands
    role_key,   \* wizard: the role chosen
    stepNo,     \* wizard: the index i of the loop over the role's steps
    stepsRun,   \* wizard: the names of the step functions called so far
    answers,    \* wizard: what the user types at the prompts of this run
    written,    \* the file preview_and_save has written (<<>>: none)
    wizMsg,     \* what the flow reported last
    argv,       \* claudemd_generator.py: the command line of this run
    clipEnv,    \* what running each clipboard command does on this machine
    clipNext,   \* use_template, choice 1: the candidate to try next
    clipTried,  \* the commands started so far
    clipMsg,    \* what the copy reported ("": nothing yet)
    askIn,      \* ask_multi: the line typed, the option keys and the default
    askOut,     \* ask_multi: how the call ended
    runs,       \* two runs side by side on one store: where each stands, what it holds
    runLog,     \* their reads, opens and writes of the store file, in order
    store0      \* the records the store held before the two runs

asmVars == <<cfg, cfg0, lang, doc, asmCount, asmLangs>>

useVars == <<tpl, values, rendered, usePc>>

buildVars == <<fields, styleInput, prompt, buildPc>>

storeVars == <<file, builtin, lastOp, msg, shown, saved>>

wizVars == <<wizPc, role_key, stepNo, stepsRun, answers, written, wizMsg, argv>>

clipVars == <<clipEnv, clipNext, clipTried, clipMsg>>

askVars == <<askIn, askOut>>

raceVars == <<runs, runLog, store0>>

vars == <<asmVars, useVars, buildVars, storeVars, wizVars, clipVars, askVars, raceVars>>

----------------------------------------------------------------------------
(* Bounds of the model *)

MaxKeys == 2        \* keys present in an enumerated Configuration Mapping
MaxItems == 2       \* length of an enumerated list value
MaxCalls == 2       \* assemble calls made on one mapping
MaxOptions == 3     \* options offered by an enumerated ask_multi call

----------------------------------------------------------------------------
(* i18n *)

Langs == {"zh", "en"}

L(zh, en, lg) == IF lg = "zh" THEN zh ELSE en

T(key, lg) ==
    CASE key = "overview"   -> L("Xiangmu Gaishu", "Project Overview", lg)
      [] key = "role"       -> L("Juese Dingyi", "Role Definition", lg)
      [] key = "tech"       -> L("Jishuzhan yu Huanjing", "Tech Stack & Environment", lg)
      [] key = "structure"  -> L("Xiangmu Jiegou", "Project Structure", lg)
      [] key = "commands"   -> L("Changyong Mingling", "Common Commands", lg)
      [] key = "style"      -> L("Daima Guifan", "Code Style", lg)
      [] key = "core"       -> L("Hexin Guifan", "Core Rules", lg)
      [] key = "workflow"   -> L("Gongzuo Liucheng", "Workflow", lg)
      [] key = "thinking"   -> L("Sikao Celue", "Thinking Strategy", lg)
      [] key = "testing"    -> L("Ceshi Guifan", "Testing", lg)
      [] key = "error"      -> L("Cuowu Chuli", "Error Handling", lg)
      [] key = "security"   -> L("Anquan Guifan", "Security", lg)
      [] key = "git"        -> L("Git Guifan", "Git Conventions", lg)
      [] key = "hard"       -> L("Jinzhi Shixiang", "Hard Rules -- NEVER Do", lg)
      [] key = "gotchas"    -> L("Teshu Zhuyi", "Gotchas & Warnings", lg)
      [] key = "verify"     -> L("Yanzheng Jiancha Qingdan", "Verification Checklist", lg)
      [] key = "references" -> L("Cankao Ziyuan", "References", lg)
      [] OTHER              -> key

----------------------------------------------------------------------------
(* Text helpers *)

EmptyText == <<"">>

RECURSIVE Flatten(_)
Flatten(parts) ==
    IF parts = <<>> THEN <<>> ELSE Head(parts) \o Flatten(Tail(parts))

\* "\n".join(parts) for a list of strings
JoinNL(parts) == IF parts = <<>> THEN EmptyText ELSE Flatten(parts)

\* p.strip() is the empty string
IsBlank(p) == \A i \in 1..Len(p) : p[i] = ""

\* cfg.get(key, default)
Get(c, key, default) == IF key \in DOMAIN c THEN c[key] ELSE default

_bullet(items, prefix) ==
    IF items = <<>> THEN EmptyText
    ELSE [i \in 1..Len(items) |-> prefix \o " " \o items[i]]

_numbered(items) ==
    IF items = <<>> THEN EmptyText
    ELSE [i \in 1..Len(items) |-> ToString(i) \o ". " \o items[i]]

----------------------------------------------------------------------------
(* Section renderers.  Each takes the mapping and the _LANG flag it reads. *)

render_overview(c, lg) ==
    LET name   == Get(c, "project_name", "my-project")
        desc   == Get(c, "project_desc", "")
        ptype  == Get(c, "project_type", "")
        status == Get(c, "project_status", "")
    IN  <<"# " \o name, "", "## " \o T("overview", lg), "">>
        \o (IF desc # "" THEN <<desc, "">> ELSE <<>>)
        \o (IF ptype # ""
              THEN <<"- **" \o L("Leixing", "Type", lg) \o "**: " \o ptype>>
              ELSE <<>>)
        \o (IF status # ""
              THEN <<"- **" \o L("Zhuangtai", "Status", lg) \o "**: " \o status>>
              ELSE <<>>)
        \o <<"">>

render_role_noguard(c, lg) ==
    LET role   == Get(c, "role", "")
        extras == Get(c, "persona_extras", <<>>)
    IN  <<"## " \o T("role", lg), "", "You are a " \o role \o ".", "">>
        \o (IF extras # <<>> THEN _bullet(extras, "-") \o <<"">> ELSE <<>>)

render_role(c, lg) ==
    LET role   == Get(c, "role", "")
        extras == Get(c, "persona_extras", <<>>)
    IN  IF role = "" THEN EmptyText
        ELSE <<"## " \o T("role", lg), "", "You are a " \o role \o ".", "">>
             \o (IF extras # <<>> THEN _bullet(extras, "-") \o <<"">> ELSE <<>>)

\* the (key, label_zh, label_en) triples of the legacy fallback loop
LegacyTech ==
    << <<"language",       "Yuyan",         "Language">>,
       <<"framework",      "Kuangjia",      "Framework">>,
       <<"database",       "Shujuku",       "Database">>,
       <<"infrastructure", "Jichu Sheshi",  "Infrastructure">>,
       <<"os",             "Caozuo Xitong", "OS / Runtime">> >>

\* what the fallback loop appends to items, followed by tech_extras
LegacyItems(c, lg) ==
    LET one(t) == IF Get(c, t[1], "") # ""
                    THEN <<"**" \o L(t[2], t[3], lg) \o "**: " \o Get(c, t[1], "")>>
                    ELSE <<>>
    IN  Flatten([i \in 1..Len(LegacyTech) |-> one(LegacyTech[i])])
        \o Get(c, "tech_extras", <<>>)

\* a fallback that runs whether or not items is empty
TechItems_always(c, lg) == Get(c, "tech_items", <<>>) \o LegacyItems(c, lg)

\* the list items of render_tech when it reaches the second 'if not items'
TechItems(c, lg) ==
    LET items == Get(c, "tech_items", <<>>)
    IN  IF items = <<>> THEN items \o LegacyItems(c, lg) ELSE items

\* the mapping after render_tech: items is cfg["tech_items"] itself when the key
\* is present, so append/extend write into the mapping; the default [] of
\* cfg.get is a fresh list and leaves the mapping alone
render_tech_cfg(c, lg) ==
    IF "tech_items" \in DOMAIN c
      THEN [c EXCEPT !["tech_items"] = TechItems(c, lg)]
      ELSE c

render_tech(c, lg) ==
    LET items == TechItems(c, lg)
    IN  IF items = <<>> THEN EmptyText
        ELSE <<"## " \o T("tech", lg), "">> \o _bullet(items, "-") \o <<"">>

render_structure(c, lg) ==
    LET s == Get(c, "project_structure", "")
    IN  IF s = "" THEN EmptyText
        ELSE <<"## " \o T("structure", lg), "", "'''", s, "'''", "">>

\* a dict label -> command is the sequence of its (label, command) items
render_commands(c, lg) ==
    LET cmds == Get(c, "commands", <<>>)
    IN  IF cmds = <<>> THEN EmptyText
        ELSE <<"## " \o T("commands", lg), "">>
             \o [i \in 1..Len(cmds) |-> "- **" \o cmds[i][1] \o "**: '" \o cmds[i][2] \o "'"]
             \o <<"">>

\* f"## {T(title)}\n\n{body}\n"
TitledBlock(title, body, lg) == <<"## " \o T(title, lg), "">> \o body \o <<"">>

render_style_noguard(c, lg) ==
    TitledBlock("style", _bullet(Get(c, "code_style_rules", <<>>), "-"), lg)

render_style(c, lg) ==
    LET items == Get(c, "code_style_rules", <<>>)
    IN  IF items = <<>> THEN EmptyText ELSE TitledBlock("style", _bullet(items, "-"), lg)

render_core(c, lg) ==
    LET items == Get(c, "core_rules", <<>>)
    IN  IF items = <<>> THEN EmptyText ELSE TitledBlock("core", _bullet(items, "-"), lg)

render_workflow(c, lg) ==
    LET items == Get(c, "workflow", <<>>)
    IN  IF items = <<>> THEN EmptyText ELSE TitledBlock("workflow", _numbered(items), lg)

render_thinking(c, lg) ==
    LET items == Get(c, "thinking_strategy", <<>>)
    IN  IF items = <<>> THEN EmptyText
        ELSE <<"## " \o T("thinking", lg), "">> \o _bullet(items, "-") \o <<"">>

render_testing(c, lg) ==
    LET items == Get(c, "testing_rules", <<>>)
    IN  IF items = <<>> THEN EmptyText ELSE TitledBlock("testing", _bullet(items, "-"), lg)

render_error(c, lg) ==
    LET items == Get(c, "error_handling", <<>>)
    IN  IF items = <<>> THEN EmptyText ELSE TitledBlock("error", _bullet(items, "-"), lg)

render_security(c, lg) ==
    LET items == Get(c, "security_rules", <<>>)
    IN  IF items = <<>> THEN EmptyText ELSE TitledBlock("security", _bullet(items, "-"), lg)

render_git(c, lg) ==
    LET items == Get(c, "git_rules", <<>>)
    IN  IF items = <<>> THEN EmptyText ELSE TitledBlock("git", _bullet(items, "-"), lg)

render_hard(c, lg) ==
    LET items == Get(c, "hard_rules", <<>>)
        warn  == L("Zhongyao: yixia guize juedui buke weifan.",
                   "IMPORTANT: The following rules must NEVER be violated.", lg)
    IN  IF items = <<>> THEN EmptyText
        ELSE <<"## " \o T("hard", lg), "", warn, "">>
             \o [i \in 1..Len(items) |-> "- (X) " \o items[i]]
             \o <<"">>

render_gotchas(c, lg) ==
    LET items == Get(c, "gotchas", <<>>)
    IN  IF items = <<>> THEN EmptyText
        ELSE <<"## " \o T("gotchas", lg), "">>
             \o [i \in 1..Len(items) |-> "- (!) " \o items[i]]
             \o <<"">>

render_verify(c, lg) ==
    LET items == Get(c, "verification", <<>>)
        title == L("Wancheng renhe xiugai hou, bixu an yixia qingdan zhuxiang yanzheng:",
                   "After completing any change, verify each item below:", lg)
    IN  IF items = <<>> THEN EmptyText
        ELSE <<"## " \o T("verify", lg), "", title, "">>
             \o [i \in 1..Len(items) |-> "- [ ] " \o items[i]]
             \o <<"">>

render_references(c, lg) ==
    LET items == Get(c, "references", <<>>)
    IN  IF items = <<>> THEN EmptyText ELSE TitledBlock("references", _bullet(items, "-"), lg)

\* the rendering pipeline with render_role and render_tech exchanged
RENDERERS_swapped ==
    << "render_overview", "render_tech", "render_role", "render_structure",
       "render_commands", "render_style", "render_core", "render_workflow",
       "render_thinking", "render_testing", "render_error", "render_security",
       "render_git", "render_hard", "render_gotchas", "render_verify",
       "render_references" >>

_RENDERERS ==
    << "render_overview", "render_role", "render_tech", "render_structure",
       "render_commands", "render_style", "render_core", "render_workflow",
       "render_thinking", "render_testing", "render_error", "render_security",
       "render_git", "render_hard", "render_gotchas", "render_verify",
       "render_references" >>

\* fn(cfg) for fn a member of _RENDERERS
Render(fn, c, lg) ==
    CASE fn = "render_overview"   -> render_overview(c, lg)
      [] fn = "render_role"       -> render_role(c, lg)
      [] fn = "render_tech"       -> render_tech(c, lg)
      [] fn = "render_structure"  -> render_structure(c, lg)
      [] fn = "render_commands"   -> render_commands(c, lg)
      [] fn = "render_style"      -> render_style(c, lg)
      [] fn = "render_core"       -> render_core(c, lg)
      [] fn = "render_workflow"   -> render_workflow(c, lg)
      [] fn = "render_thinking"   -> render_thinking(c, lg)
      [] fn = "render_testing"    -> render_testing(c, lg)
      [] fn = "render_error"      -> render_error(c, lg)
      [] fn = "render_security"   -> render_security(c, lg)
      [] fn = "render_git"        -> render_git(c, lg)
      [] fn = "render_hard"       -> render_hard(c, lg)
      [] fn = "render_gotchas"    -> render_gotchas(c, lg)
      [] fn = "render_verify"     -> render_verify(c, lg)
      [] fn = "render_references" -> render_references(c, lg)

\* the string assemble returns
assemble(c, lg) ==
    LET parts == [i \in 1..Len(_RENDERERS) |-> Render(_RENDERERS[i], c, lg)]
    IN  JoinNL(SelectSeq(parts, LAMBDA p : ~IsBlank(p)))

\* the mapping assemble leaves behind: render_tech is the only renderer that writes
assemble_cfg(c, lg) == render_tech_cfg(c, lg)

----------------------------------------------------------------------------
(* The Configuration Mappings handed to assemble *)

StrKeys ==
    {"project_name", "project_desc", "project_type", "project_status", "role",
     "project_structure", "language", "framework", "database", "infrastructure", "os"}

ListKeys ==
    {"persona_extras", "tech_items", "tech_extras", "code_style_rules", "core_rules",
     "workflow", "thinking_strategy", "testing_rules", "error_handling",
     "security_rules", "git_rules", "hard_rules", "gotchas", "verification",
     "references"}

DictKeys == {"commands"}

CfgKeys == StrKeys \cup ListKeys \cup DictKeys

StrValues == {"", "v1"}

ListValues == {<<>>, [i \in 1..MaxItems |-> "r" \o ToString(i)]}

DictValues == {<<>>, << <<"test", "go test ./...">> >>}

ValuesOf(k) ==
    IF k \in StrKeys THEN StrValues
    ELSE IF k \in ListKeys THEN ListValues
    ELSE DictValues

\* the mappings with at most n keys present
RECURSIVE CfgsUpTo(_)
CfgsUpTo(n) ==
    IF n = 0 THEN {<<>>}
    ELSE LET S == CfgsUpTo(n - 1)
             Ext(c, k) == {(k :> v) @@ c : v \in ValuesOf(k)}
         IN  S \cup UNION { UNION {Ext(c, k) : k \in CfgKeys \ DOMAIN c} :
                              c \in {d \in S : Cardinality(DOMAIN d) = n - 1} }

\* a mapping with every section's fields filled in
FullCfg ==
    [k \in CfgKeys |->
        IF k \in StrKeys THEN "v1"
        ELSE IF k \in ListKeys THEN <<"r1">>
        ELSE << <<"test", "go test ./...">> >>]

\* the same with tech_items present but empty, so that the legacy keys are read
LegacyCfg == [FullCfg EXCEPT !["tech_items"] = <<>>]

CfgSpace == CfgsUpTo(MaxKeys) \cup {FullCfg, LegacyCfg}

----------------------------------------------------------------------------
(* The assembler as a state machine: assemble is called on a mapping,       *)
(* possibly more than once.                                                *)

NoDoc == <<>>

AsmStart ==
    /\ cfg \in CfgSpace
    /\ cfg0 = cfg
    /\ lang \in Langs
    /\ doc = NoDoc
    /\ asmCount = 0
    /\ asmLangs = <<>>

\* the assembler is not in use
AsmIdle ==
    /\ cfg = <<>>
    /\ cfg0 = <<>>
    /\ lang = "zh"
    /\ doc = NoDoc
    /\ asmCount = 0
    /\ asmLangs = <<>>

\* content = assemble(cfg)
Assemble ==
    /\ asmCount < MaxCalls
    /\ doc' = assemble(cfg, lang)
    /\ cfg' = assemble_cfg(cfg, lang)
    /\ asmCount' = asmCount + 1
    /\ asmLangs' = Append(asmLangs, lang)
    /\ UNCHANGED <<cfg0, lang>>

\* set_lang(lang) between two calls
SetLang ==
    /\ \E l \in Langs : lang' = l
    /\ UNCHANGED <<cfg, cfg0, doc, asmCount, asmLangs>>

----------------------------------------------------------------------------
(* Reading a document back: its section headers and their bodies *)

\* the declared section order, by title key
SectionOrder ==
    << "overview", "role", "tech", "structure", "commands", "style", "core",
       "workflow", "thinking", "testing", "error", "security", "git", "hard",
       "gotchas", "verify", "references" >>

SectionKeys == {SectionOrder[i] : i \in 1..Len(SectionOrder)}

OrderIndex(k) == CHOOSE i \in 1..Len(SectionOrder) : SectionOrder[i] = k

IsHeader(line, lg) == \E k \in SectionKeys : line = "## " \o T(k, lg)

HeaderKey(line, lg) == CHOOSE k \in SectionKeys : line = "## " \o T(k, lg)

HeaderPositions(d, lg) == {i \in 1..Len(d) : IsHeader(d[i], lg)}

\* the header at position i is followed, before the next header or the end of
\* the document, by at least one line that is not blank
HasBody(d, i, lg) ==
    \E j \in (i + 1)..Len(d) :
        /\ d[j] # ""
        /\ \A m \in (i + 1)..j : ~IsHeader(d[m], lg)

\* the keys a renderer reads
OwnKeys(fn) ==
    CASE fn = "render_overview"   -> {"project_name", "project_desc", "project_type",
                                      "project_status"}
      [] fn = "render_role"       -> {"role", "persona_extras"}
      [] fn = "render_tech"       -> {"tech_items", "language", "framework", "database",
                                      "infrastructure", "os", "tech_extras"}
      [] fn = "render_structure"  -> {"project_structure"}
      [] fn = "render_commands"   -> {"commands"}
      [] fn = "render_style"      -> {"code_style_rules"}
      [] fn = "render_core"       -> {"core_rules"}
      [] fn = "render_workflow"   -> {"workflow"}
      [] fn = "render_thinking"   -> {"thinking_strategy"}
      [] fn = "render_testing"    -> {"testing_rules"}
      [] fn = "render_error"      -> {"error_handling"}
      [] fn = "render_security"   -> {"security_rules"}
      [] fn = "render_git"        -> {"git_rules"}
      [] fn = "render_hard"       -> {"hard_rules"}
      [] fn = "render_gotchas"    -> {"gotchas"}
      [] fn = "render_verify"     -> {"verification"}
      [] fn = "render_references" -> {"references"}

\* key k is absent from the mapping or holds an empty string, list or dict
IsEmptyField(c, k) ==
    \/ k \notin DOMAIN c
    \/ IF k \in StrKeys THEN c[k] = "" ELSE c[k] = <<>>

RendererNames == {_RENDERERS[i] : i \in 1..Len(_RENDERERS)}

----------------------------------------------------------------------------
(* Claims about the assembler, checked under SpecAsm *)

\* C1: the section headers of an assembled document appear in the fixed order
\* overview, role, tech, structure, commands, style, core rules, workflow,
\* thinking strategy, testing, error handling, security, git, hard rules,
\* gotchas, verification, references, whatever the mapping holds.
C1_FixedSectionOrder ==
    doc # NoDoc =>
        \A i, j \in HeaderPositions(doc, lang) :
            i < j => OrderIndex(HeaderKey(doc[i], lang)) < OrderIndex(HeaderKey(doc[j], lang))

\* C1 witness: a document holding all seventeen sections has been assembled
C1_Witness ==
    /\ doc # NoDoc
    /\ Cardinality(HeaderPositions(doc, lang)) = Len(SectionOrder)

\* C2 as stated: every renderer returns the empty string when the fields it
\* reads are absent or empty, and no header of an assembled document has an
\* empty body.
C2_Original ==
    /\ \A fn \in RendererNames :
          (\A k \in OwnKeys(fn) : IsEmptyField(cfg, k)) => Render(fn, cfg, lang) = EmptyText
    /\ doc # NoDoc => \A i \in HeaderPositions(doc, lang) : HasBody(doc, i, lang)

\* C2 as amended: every renderer other than render_overview returns the empty
\* string when the fields it reads are absent or empty, and no header of an
\* assembled document other than the overview header has an empty body.
C2_EmptyFieldsOmitSection ==
    /\ \A fn \in RendererNames \ {"render_overview"} :
          (\A k \in OwnKeys(fn) : IsEmptyField(cfg, k)) => Render(fn, cfg, lang) = EmptyText
    /\ doc # NoDoc =>
          \A i \in HeaderPositions(doc, lang) :
              HeaderKey(doc[i], lang) # "overview" => HasBody(doc, i, lang)

\* C2 witness: a document was assembled from a mapping that holds an empty list
\* under one key and a section with a body under another
C2_Witness ==
    /\ doc # NoDoc
    /\ \E k \in DOMAIN cfg0 \cap ListKeys : cfg0[k] = <<>>
    /\ \E i \in HeaderPositions(doc, lang) :
          HeaderKey(doc[i], lang) # "overview" /\ HasBody(doc, i, lang)

\* C3: in an assembled document every section after the first starts right
\* after exactly one blank line: the line before its header is blank and the
\* line before that is not.
C3_OneBlankLineBetweenSections ==
    doc # NoDoc =>
        \A i \in HeaderPositions(doc, lang) :
            HeaderKey(doc[i], lang) # "overview" =>
                /\ i > 2
                /\ doc[i - 1] = ""
                /\ doc[i - 2] # ""

\* C4: assemble leaves the mapping as it was handed in.
C4_AssembleKeepsCfg == asmCount > 0 => cfg = cfg0

\* C5: a second assemble call on the same mapping under the same flag returns
\* the document the first call returned.
C5_AssembleTwiceSame == [][(Assemble /\ doc # NoDoc) => doc' = doc]_asmVars

\* C5 witness: assemble has run twice on a mapping that the first call changed
C5_Witness == asmCount = 2 /\ cfg # cfg0

\* every key other than the project name is absent or empty
AllOptionalEmpty(c) == \A k \in CfgKeys \ {"project_name"} : IsEmptyField(c, k)

\* C6: when every optional field is absent or empty the document is the title
\* line and the overview header and nothing else.
C6_OnlyOverview ==
    (doc # NoDoc /\ AllOptionalEmpty(cfg0)) =>
        doc = << "# " \o Get(cfg0, "project_name", "my-project"), "",
                 "## " \o T("overview", lang), "", "" >>

\* C6 witness: a document was assembled from a mapping whose optional fields are
\* present but empty
C6_Witness ==
    /\ doc # NoDoc
    /\ AllOptionalEmpty(cfg0)
    /\ Cardinality(DOMAIN cfg0 \ {"project_name"}) >= 2

----------------------------------------------------------------------------
(* Placeholder substitution (prompt_generator.py, use_template).  A text   *)
(* is the sequence of its characters; a variable name is a text too.       *)

MaxSegs == 2        \* segments an enumerated template text is made of
MaxValSegs == 1     \* segments an enumerated value is made of

\* the characters that match \w
WordChars ==
    {"a", "b", "w", "app_desc", "app_name", "business_desc", "business_scenario",
     "candidates", "changes", "ci_platform", "code", "code_context", "constraints",
     "content_scope", "context", "current_metrics", "database", "doc_type",
     "environment", "error_info", "function_desc", "image", "known_info", "language",
     "monitoring_tool", "nfr", "project", "refactor_goal", "requirements", "resource",
     "scale", "scenario", "sla", "specific_question", "sql", "symptom", "system",
     "system_desc", "system_name", "table_schema", "target_metrics", "tech_stack",
     "test_framework", "topic"}

Names == {<<"a">>, <<"b">>}

\* f"{{{var}}}"
Placeholder(var) == <<"{">> \o var \o <<"}">>

IsPrefix(p, s) == Len(p) <= Len(s) /\ SubSeq(s, 1, Len(p)) = p

Drop(s, n) == SubSeq(s, n + 1, Len(s))

\* a replace that stops after the first occurrence
RECURSIVE ReplaceFirst(_, _, _)
ReplaceFirst(s, old, new) ==
    IF s = <<>> THEN <<>>
    ELSE IF IsPrefix(old, s) THEN new \o Drop(s, Len(old))
    ELSE <<Head(s)>> \o ReplaceFirst(Tail(s), old, new)

\* s.replace(old, new) for a non-empty old: the non-overlapping occurrences,
\* found from the left, are replaced; the replacement is not scanned again
RECURSIVE Replace(_, _, _)
Replace(s, old, new) ==
    IF s = <<>> THEN <<>>
    ELSE IF IsPrefix(old, s) THEN new \o Replace(Drop(s, Len(old)), old, new)
    ELSE <<Head(s)>> \o Replace(Tail(s), old, new)

\* the keys of the dict values in insertion order: the declared variables,
\* each at its first occurrence
RECURSIVE Dedup(_)
Dedup(q) ==
    IF q = <<>> THEN <<>>
    ELSE LET r == Dedup(SubSeq(q, 1, Len(q) - 1))
             x == q[Len(q)]
         IN  IF \E i \in 1..Len(r) : r[i] = x THEN r ELSE Append(r, x)

\* for var, val in values.items(): rendered = rendered.replace(f"{{{var}}}", val)
RECURSIVE SubstituteAll(_, _, _)
SubstituteAll(text, order, vals) ==
    IF order = <<>> THEN text
    ELSE SubstituteAll(Replace(text, Placeholder(Head(order)), vals[Head(order)]),
                       Tail(order), vals)

\* a rendering that afterwards drops the placeholders nobody supplied
RenderTemplate_dropUnresolved(t, vals) ==
    LET r == SubstituteAll(t.template, Dedup(t.variables), vals)
        blank == [n \in Names |-> <<>>]
        rest == CHOOSE q \in [1..Cardinality(Names) -> Names] :
                    \A n \in Names : \E i \in DOMAIN q : q[i] = n
    IN  SubstituteAll(r, rest, blank)

\* the text use_template renders from record t and the collected values
RenderTemplate(t, vals) == SubstituteAll(t.template, Dedup(t.variables), vals)

RECURSIVE TextsOf(_, _)
TextsOf(segs, n) ==
    IF n = 0 THEN {<<>>}
    ELSE LET S == TextsOf(segs, n - 1)
         IN  S \cup {t \o g : t \in S, g \in segs}

TplSegs == {<<"a">>, <<"{">>, <<"}">>, Placeholder(<<"a">>), Placeholder(<<"b">>)}

ValSegs == {<<"a">>, Placeholder(<<"a">>), Placeholder(<<"b">>)}

\* a placeholder inside a pair of braces
DoubleBraced == <<"{">> \o Placeholder(<<"a">>) \o <<"}">>

TplTexts == TextsOf(TplSegs, MaxSegs) \cup {DoubleBraced}

ValTexts == TextsOf(ValSegs, MaxValSegs)

VarLists == {<< <<"a">> >>, << <<"a">>, <<"b">> >>, << <<"b">>, <<"a">> >>}

Declared(t) == {t.variables[i] : i \in 1..Len(t.variables)}

NoText == <<"-">>

UseStart ==
    /\ tpl \in [variables : VarLists, template : TplTexts]
    /\ values = <<>>
    /\ rendered = NoText
    /\ usePc = "start"

\* use_template is not in use
UseIdle ==
    /\ tpl = [variables |-> <<>>, template |-> <<>>]
    /\ values = <<>>
    /\ rendered = NoText
    /\ usePc = "start"

\* use_template from the collection of the values to the display of the result
UseTemplate ==
    /\ usePc = "start"
    /\ \E vals \in [Declared(tpl) -> ValTexts] :
          /\ values' = vals
          /\ IF "template" \in DOMAIN tpl
               THEN /\ rendered' = RenderTemplate(tpl, vals)
                    /\ usePc' = "shown"
               ELSE /\ rendered' = rendered
                    /\ usePc' = "missing_variable"
    /\ UNCHANGED tpl

----------------------------------------------------------------------------
(* Claims about use_template, checked under SpecUse *)

Contains(s, p) == \E i \in 1..(Len(s) + 1 - Len(p)) : SubSeq(s, i, i + Len(p) - 1) = p

Occurrences(s, p) == {i \in 1..(Len(s) + 1 - Len(p)) : SubSeq(s, i, i + Len(p) - 1) = p}

\* every placeholder of a declared variable in t replaced by its value, all at once
RECURSIVE SimSubst(_, _, _)
SimSubst(t, declared, vals) ==
    IF t = <<>> THEN <<>>
    ELSE IF \E v \in declared : IsPrefix(Placeholder(v), t)
      THEN LET v == CHOOSE w \in declared : IsPrefix(Placeholder(w), t)
           IN  vals[v] \o SimSubst(Drop(t, Len(Placeholder(v))), declared, vals)
      ELSE <<Head(t)>> \o SimSubst(Tail(t), declared, vals)

BraceFree(s) == \A i \in 1..Len(s) : s[i] \notin {"{", "}"}

\* every brace of t is the brace of a placeholder {name} (names of one character)
PlaceholdersOnly(t) ==
    \A i \in 1..Len(t) :
        /\ t[i] = "{" => (i + 2 <= Len(t) /\ t[i + 1] \in WordChars /\ t[i + 2] = "}")
        /\ t[i] = "}" => (i >= 3 /\ t[i - 1] \in WordChars /\ t[i - 2] = "{")

\* the rendered text holds no placeholder of a declared variable and is the
\* template with its declared placeholders replaced by their values
RenderedClean ==
    /\ \A v \in Declared(tpl) : ~Contains(rendered, Placeholder(v))
    /\ rendered = SimSubst(tpl.template, Declared(tpl), values)

\* C7 as stated: for every template and every assignment of arbitrary strings
\* to its declared variables, the rendered text contains no {v} for a declared
\* v and equals the template outside the replaced spans.
C7_Original == usePc = "shown" => RenderedClean

\* C7 as amended: the same, for values that contain no brace and templates
\* whose every brace belongs to a placeholder {name}.
C7_NoDeclaredPlaceholderLeft ==
    ( /\ usePc = "shown"
      /\ \A v \in Declared(tpl) : BraceFree(values[v])
      /\ PlaceholdersOnly(tpl.template) ) => RenderedClean

\* C7 witness: a template with two placeholders of declared variables has been
\* rendered with brace-free, non-empty values
C7_Witness ==
    /\ usePc = "shown"
    /\ PlaceholdersOnly(tpl.template)
    /\ \A v \in Declared(tpl) : BraceFree(values[v]) /\ values[v] # <<>>
    /\ Cardinality(UNION {Occurrences(tpl.template, Placeholder(v)) : v \in Declared(tpl)}) >= 2

\* C8: a placeholder {name} of the template whose name is not declared stands
\* verbatim in the rendered text, between the renderings of what precedes and
\* what follows it, and the call reaches the display of the result.
C8_UndeclaredPlaceholderKept ==
    /\ usePc # "missing_variable"
    /\ usePc = "shown" =>
          \A u \in Names \ Declared(tpl) :
              \A i \in Occurrences(tpl.template, Placeholder(u)) :
                  rendered =
                      RenderTemplate([tpl EXCEPT !.template = SubSeq(tpl.template, 1, i - 1)], values)
                      \o Placeholder(u)
                      \o RenderTemplate([tpl EXCEPT !.template = Drop(tpl.template, i + Len(u) + 1)], values)

\* C8 witness: a template holding a declared and an undeclared placeholder has
\* been rendered
C8_Witness ==
    /\ usePc = "shown"
    /\ \E u \in Names \ Declared(tpl) : Contains(tpl.template, Placeholder(u))
    /\ \E v \in Declared(tpl) : Contains(tpl.template, Placeholder(v)) /\ values[v] # <<>>

\* the orders in which the variables of S can be substituted
Orders(S) ==
    {q \in [1..Cardinality(S) -> S] : \A i, j \in DOMAIN q : q[i] = q[j] => i = j}

\* C28: the text rendered by use_template does not depend on the order in
\* which the declared variables are substituted: for every template and
\* every assignment of values, values that contain {name} of another
\* declared variable included, every order gives the text obtained by
\* replacing all placeholders of the original template at once.
C28_OrderIndependent ==
    usePc = "shown" =>
        /\ rendered = SimSubst(tpl.template, Declared(tpl), values)
        /\ \A order \in Orders(Declared(tpl)) :
              SubstituteAll(tpl.template, order, values) = rendered

----------------------------------------------------------------------------
(* The prompt builder (prompt_generator.py, build_prompt).  A text is a    *)
(* sequence of characters as above; a literal of the source that holds no  *)
(* placeholder (a tag, a header, an intro phrase, a newline) is one token. *)

MaxFieldSegs == 1   \* segments an enumerated field value is made of

NL == "\n"

\* sep.join(parts) on texts
RECURSIVE JoinWith(_, _)
JoinWith(parts, sep) ==
    IF parts = <<>> THEN <<>>
    ELSE IF Len(parts) = 1 THEN parts[1]
    ELSE parts[1] \o sep \o JoinWith(Tail(parts), sep)

\* the part list of a builder: one entry per field, <<>> when the field is skipped
PartsOf(all) == SelectSeq(all, LAMBDA x : x # <<>>)

_build_xml_style_always(role, context, task, fmt, constraints) ==
    JoinWith(
        << <<"<role>">> \o role \o <<"</role>">>,
           <<NL, "<context>", NL>> \o context \o <<NL, "</context>">>,
           <<NL, "<task>", NL>> \o task \o <<NL, "</task>">>,
           <<NL, "<output_format>">> \o fmt \o <<"</output_format>">>,
           <<NL, "<constraints>">> \o constraints \o <<"</constraints>">> >>,
        <<NL>>)

_build_xml_style(role, context, task, fmt, constraints) ==
    JoinWith(PartsOf(
        << IF role # <<>> THEN <<"<role>">> \o role \o <<"</role>">> ELSE <<>>,
           IF context # <<>>
             THEN <<NL, "<context>", NL>> \o context \o <<NL, "</context>">> ELSE <<>>,
           IF task # <<>>
             THEN <<NL, "<task>", NL>> \o task \o <<NL, "</task>">> ELSE <<>>,
           IF fmt # <<>>
             THEN <<NL, "<output_format>">> \o fmt \o <<"</output_format>">> ELSE <<>>,
           IF constraints # <<>>
             THEN <<NL, "<constraints>">> \o constraints \o <<"</constraints>">> ELSE <<>> >>),
        <<NL>>)

_build_markdown_style(role, context, task, fmt, constraints) ==
    JoinWith(PartsOf(
        << IF role # <<>> THEN <<"## Juese", NL>> \o role ELSE <<>>,
           IF context # <<>> THEN <<NL, "## Shangxiawen", NL>> \o context ELSE <<>>,
           IF task # <<>> THEN <<NL, "## Renwu", NL>> \o task ELSE <<>>,
           IF fmt # <<>> THEN <<NL, "## Shuchu Geshi", NL>> \o fmt ELSE <<>>,
           IF constraints # <<>> THEN <<NL, "## Yueshu Tiaojian", NL>> \o constraints ELSE <<>> >>),
        <<NL>>)

_build_plain_style(role, context, task, fmt, constraints) ==
    JoinWith(PartsOf(
        << IF role # <<>> THEN role ELSE <<>>,
           IF context # <<>> THEN <<NL, "Beijing xinxi:", NL>> \o context ELSE <<>>,
           IF task # <<>> THEN <<NL, "Qing wancheng yixia renwu:", NL>> \o task ELSE <<>>,
           IF fmt # <<>> THEN <<NL, "Shuchu yaoqiu:">> \o fmt ELSE <<>>,
           IF constraints # <<>> THEN <<NL, "Zhuyi:">> \o constraints ELSE <<>> >>),
        <<NL>>)

\* style = input(...).strip() or "1"
StyleOf(answer) == IF answer = "" THEN "1" ELSE answer

\* the prompt build_prompt builds from the fields f and the style answer
BuiltPrompt(f, answer) ==
    LET style == StyleOf(answer)
    IN  IF style = "1"
          THEN _build_xml_style(f.role, f.context, f.task, f.fmt, f.constraints)
        ELSE IF style = "2"
          THEN _build_markdown_style(f.role, f.context, f.task, f.fmt, f.constraints)
        ELSE _build_plain_style(f.role, f.context, f.task, f.fmt, f.constraints)

FieldSegs == {<<"w">>}

FieldTexts == TextsOf(FieldSegs, MaxFieldSegs) \cup {Placeholder(<<"a">>)}

StyleAnswers == {"", "1", "2", "3", "9"}

FieldNames == {"role", "context", "task", "fmt", "constraints"}

NoFields == [n \in FieldNames |-> <<>>]

BuildStart ==
    /\ fields \in [FieldNames -> FieldTexts]
    /\ styleInput \in StyleAnswers
    /\ prompt = NoText
    /\ buildPc = "start"

\* build_prompt is not in use
BuildIdle ==
    /\ fields = NoFields
    /\ styleInput = ""
    /\ prompt = NoText
    /\ buildPc = "start"

\* build_prompt from the five questions to the display of the prompt
BuildPrompt ==
    /\ buildPc = "start"
    /\ prompt' = BuiltPrompt(fields, styleInput)
    /\ buildPc' = "built"
    /\ UNCHANGED <<fields, styleInput>>

\* Ctrl+C at one of the questions of build_prompt: neither build_prompt nor
\* interactive_menu nor main has a handler, the KeyboardInterrupt leaves main
BuildInterrupt ==
    /\ buildPc = "start"
    /\ buildPc' = "Traceback"
    /\ UNCHANGED <<fields, styleInput, prompt>>

----------------------------------------------------------------------------
(* Claims about the builder, checked under SpecBuild *)

Count(s, tok) == Cardinality({i \in 1..Len(s) : s[i] = tok})

\* the tokens that mark a field in each style (none for the role in plain style)
OpenMark(style, f) ==
    IF style = "1" THEN
        CASE f = "role" -> "<role>" [] f = "context" -> "<context>" [] f = "task" -> "<task>"
          [] f = "fmt" -> "<output_format>" [] f = "constraints" -> "<constraints>"
    ELSE IF style = "2" THEN
        CASE f = "role" -> "## Juese" [] f = "context" -> "## Shangxiawen"
          [] f = "task" -> "## Renwu" [] f = "fmt" -> "## Shuchu Geshi"
          [] f = "constraints" -> "## Yueshu Tiaojian"
    ELSE
        CASE f = "role" -> "(none)" [] f = "context" -> "Beijing xinxi:"
          [] f = "task" -> "Qing wancheng yixia renwu:" [] f = "fmt" -> "Shuchu yaoqiu:"
          [] f = "constraints" -> "Zhuyi:"

CloseMark(f) ==
    CASE f = "role" -> "</role>" [] f = "context" -> "</context>" [] f = "task" -> "</task>"
      [] f = "fmt" -> "</output_format>" [] f = "constraints" -> "</constraints>"

MarkedFields(style) == IF style \in {"1", "2"} THEN FieldNames ELSE FieldNames \ {"role"}

\* C9: in each style the mark (tag, header or intro phrase) of a field stands
\* in the prompt once if the field is non-empty and not at all if it is empty;
\* with only the task set, the tagged style gives exactly the block
\* <task>...</task> and no other tag.
C9_EmptyFieldsOmitted ==
    buildPc = "built" =>
        LET style == StyleOf(styleInput)
        IN  /\ \A f \in MarkedFields(style) :
                  Count(prompt, OpenMark(style, f)) = IF fields[f] # <<>> THEN 1 ELSE 0
            /\ style = "1" =>
                  \A f \in FieldNames :
                      Count(prompt, CloseMark(f)) = IF fields[f] # <<>> THEN 1 ELSE 0
            /\ (style = "1" /\ \A f \in FieldNames \ {"task"} : fields[f] = <<>>
                            /\ fields.task # <<>>) =>
                  prompt = <<NL, "<task>", NL>> \o fields.task \o <<NL, "</task>">>

\* C9 witness: the tagged style has built a prompt from the task field alone
C9_Witness ==
    /\ buildPc = "built"
    /\ StyleOf(styleInput) = "1"
    /\ fields.task # <<>>
    /\ \A f \in FieldNames \ {"task"} : fields[f] = <<>>
    /\ Count(prompt, "<task>") = 1

----------------------------------------------------------------------------
(* The template store (prompt_generator.py).  A Python dict with string    *)
(* keys is the sequence of its items [key, val] in insertion order.  A      *)
(* template id is a text whose characters are letter chunks, digits or      *)
(* other characters.                                                        *)

DictKeysOf(d) == {d[i].key : i \in 1..Len(d)}

DictHas(d, k) == \E i \in 1..Len(d) : d[i].key = k

DictGet(d, k) == d[CHOOSE i \in 1..Len(d) : d[i].key = k].val

\* d[k] = v
DictSet(d, k, v) ==
    IF DictHas(d, k)
      THEN [i \in 1..Len(d) |-> IF d[i].key = k THEN [key |-> k, val |-> v] ELSE d[i]]
      ELSE Append(d, [key |-> k, val |-> v])

\* a deletion that empties the dict
DictDel_all(d, k) == <<>>

\* del d[k]
DictDel(d, k) == SelectSeq(d, LAMBDA e : e.key # k)

\* the built-in Template Records.  Their texts are shortened: a placeholder is
\* written out, every occurrence of the search keywords SQL and Shujuku is kept
\* as a token of its own, and every other run of characters is written "~".
BUILTIN_TEMPLATES ==
  <<
    [key |-> <<"code_review">>,
     val |-> [name |-> <<"Daima Shencha">>,
              category |-> "Kaifa",
              description |-> <<"~">>,
              variables |-> <<<<"language">>, <<"code">>>>,
              template |-> <<"~", "{", "language", "}", "~", "SQL", "~", "{", "code",
                              "}", "~">>]],
    [key |-> <<"api_design">>,
     val |-> [name |-> <<"RESTful API Sheji">>,
              category |-> "Kaifa",
              description |-> <<"~">>,
              variables |-> <<<<"resource">>, <<"tech_stack">>, <<"requirements">>>>,
              template |-> <<"~", "{", "resource", "}", "~", "{", "tech_stack", "}",
                              "~", "{", "requirements", "}", "~">>]],
    [key |-> <<"write_function">>,
     val |-> [name |-> <<"Bianxie Hanshu/Fangfa">>,
              category |-> "Kaifa",
              description |-> <<"~">>,
              variables |-> <<<<"language">>, <<"function_desc">>, <<"constraints">>>>,
              template |-> <<"~", "{", "language", "}", "~", "{", "function_desc", "}",
                              "~", "{", "constraints", "}", "~">>]],
    [key |-> <<"debug_help">>,
     val |-> [name |-> <<"Tiaoshi Qiuzhu">>,
              category |-> "Kaifa",
              description |-> <<"~">>,
              variables |-> <<<<"language">>, <<"error_info">>, <<"code_context">>>>,
              template |-> <<"~", "{", "language", "}", "~", "{", "error_info", "}",
                              "~", "{", "code_context", "}", "~">>]],
    [key |-> <<"unit_test">>,
     val |-> [name |-> <<"Bianxie Danyuan Ceshi">>,
              category |-> "Kaifa",
              description |-> <<"~">>,
              variables |-> <<<<"language">>, <<"test_framework">>, <<"code">>>>,
              template |-> <<"~", "{", "language", "}", "~", "{", "test_framework", "}",
                              "~", "{", "code", "}", "~">>]],
    [key |-> <<"refactor">>,
     val |-> [name |-> <<"Daima Chonggou">>,
              category |-> "Kaifa",
              description |-> <<"~">>,
              variables |-> <<<<"language">>, <<"refactor_goal">>, <<"code">>>>,
              template |-> <<"~", "{", "language", "}", "~", "{", "refactor_goal", "}",
                              "~", "{", "code", "}", "~">>]],
    [key |-> <<"sql", "_optimize">>,
     val |-> [name |-> <<"SQL", " Youhua">>,
              category |-> "Shujuku",
              description |-> <<"~", "SQL", "~">>,
              variables |-> <<<<"database">>, <<"sql">>, <<"table_schema">>>>,
              template |-> <<"~", "SQL", "~", "Shujuku", "~", "{", "database", "}", "~",
                              "{", "table_schema", "}", "~", "SQL", "~", "sql", "~", "{",
                              "sql", "}", "~", "SQL", "~", "SQL", "~">>]],
    [key |-> <<"db_schema_design">>,
     val |-> [name |-> <<"Shujuku", " Biao Sheji">>,
              category |-> "Shujuku",
              description |-> <<"~", "Shujuku", "~">>,
              variables |-> <<<<"database">>, <<"business_desc">>, <<"scale">>>>,
              template |-> <<"~", "Shujuku", "~", "Shujuku", "~", "{", "database", "}",
                              "~", "{", "business_desc", "}", "~", "{", "scale", "}",
                              "~">>]],
    [key |-> <<"incident_analysis">>,
     val |-> [name |-> <<"Guzhang Paicha">>,
              category |-> "Yunwei",
              description |-> <<"~">>,
              variables |-> <<<<"symptom">>, <<"environment">>, <<"known_info">>>>,
              template |-> <<"~", "{", "symptom", "}", "~", "{", "environment", "}",
                              "~", "{", "known_info", "}", "~">>]],
    [key |-> <<"dockerfile">>,
     val |-> [name |-> <<"Dockerfile Bianxie">>,
              category |-> "Yunwei",
              description |-> <<"~">>,
              variables |-> <<<<"language">>, <<"app_desc">>, <<"requirements">>>>,
              template |-> <<"~", "{", "language", "}", "~", "{", "app_desc", "}", "~",
                              "{", "requirements", "}", "~">>]],
    [key |-> <<"k8s_manifest">>,
     val |-> [name |-> <<"K8s Ziyuan Qingdan">>,
              category |-> "Yunwei",
              description |-> <<"~">>,
              variables |-> <<<<"app_name">>, <<"image">>, <<"requirements">>>>,
              template |-> <<"~", "{", "app_name", "}", "~", "{", "image", "}", "~",
                              "{", "requirements", "}", "~">>]],
    [key |-> <<"cicd_pipeline">>,
     val |-> [name |-> <<"CI/CD Liushuixian">>,
              category |-> "Yunwei",
              description |-> <<"~">>,
              variables |-> <<<<"ci_platform">>, <<"tech_stack">>, <<"requirements">>>>,
              template |-> <<"~", "{", "ci_platform", "}", "~", "{", "tech_stack", "}",
                              "~", "{", "requirements", "}", "~">>]],
    [key |-> <<"nginx_config">>,
     val |-> [name |-> <<"Nginx Peizhi">>,
              category |-> "Yunwei",
              description |-> <<"~">>,
              variables |-> <<<<"scenario">>, <<"requirements">>>>,
              template |-> <<"~", "{", "scenario", "}", "~", "{", "requirements", "}",
                              "~">>]],
    [key |-> <<"monitoring_alert">>,
     val |-> [name |-> <<"Jiankong Gaojing Peizhi">>,
              category |-> "Yunwei",
              description |-> <<"~">>,
              variables |-> <<<<"system">>, <<"monitoring_tool">>, <<"sla">>>>,
              template |-> <<"~", "{", "system", "}", "~", "{", "monitoring_tool", "}",
                              "~", "{", "sla", "}", "~">>]],
    [key |-> <<"system_design">>,
     val |-> [name |-> <<"Xitong Jiagou Sheji">>,
              category |-> "Jiagou",
              description |-> <<"~">>,
              variables |-> <<<<"system_name">>, <<"business_scenario">>, <<"nfr">>>>,
              template |-> <<"~", "{", "system_name", "}", "~", "{",
                              "business_scenario", "}", "~", "{", "nfr", "}", "~">>]],
    [key |-> <<"tech_selection">>,
     val |-> [name |-> <<"Jishu Xuanxing Duibi">>,
              category |-> "Jiagou",
              description |-> <<"~">>,
              variables |-> <<<<"scenario">>, <<"candidates">>, <<"constraints">>>>,
              template |-> <<"~", "{", "scenario", "}", "~", "{", "candidates", "}",
                              "~", "{", "constraints", "}", "~">>]],
    [key |-> <<"tech_doc">>,
     val |-> [name |-> <<"Jishu Wendang">>,
              category |-> "Wendang",
              description |-> <<"~">>,
              variables |-> <<<<"doc_type">>, <<"project">>, <<"content_scope">>>>,
              template |-> <<"~", "{", "project", "}", "~", "{", "doc_type", "}", "~",
                              "{", "content_scope", "}", "~">>]],
    [key |-> <<"commit_message">>,
     val |-> [name |-> <<"Git Commit Message">>,
              category |-> "Wendang",
              description |-> <<"~">>,
              variables |-> <<<<"changes">>>>,
              template |-> <<"~", "{", "changes", "}", "~">>]],
    [key |-> <<"explain_code">>,
     val |-> [name |-> <<"Daima Jieshi">>,
              category |-> "Kaifa",
              description |-> <<"~">>,
              variables |-> <<<<"language">>, <<"code">>>>,
              template |-> <<"~", "{", "language", "}", "~", "{", "code", "}", "~">>]],
    [key |-> <<"general_query">>,
     val |-> [name |-> <<"Tongyong Jishu Chaxun">>,
              category |-> "Tongyong",
              description |-> <<"~">>,
              variables |-> <<<<"topic">>, <<"specific_question">>, <<"context">>>>,
              template |-> <<"~", "{", "topic", "}", "~", "{", "context", "}", "~", "{",
                              "specific_question", "}", "~">>]],
    [key |-> <<"performance_optimize">>,
     val |-> [name |-> <<"Xingneng Youhua">>,
              category |-> "Kaifa",
              description |-> <<"~">>,
              variables |-> <<<<"system_desc">>, <<"current_metrics">>,
                               <<"target_metrics">>>>,
              template |-> <<"~", "{", "system_desc", "}", "~", "{", "current_metrics",
                              "}", "~", "{", "target_metrics", "}", "~">>]]
  >>

\* the JSON string literal of a text: quoted, with the quote, the backslash and
\* the newline escaped (ensure_ascii=False leaves every other character as it is)
JsonEscape_none(text) == text

RECURSIVE JsonEscape(_)
JsonEscape(text) ==
    IF text = <<>> THEN <<>>
    ELSE (CASE Head(text) = NL -> <<"\\", "n">>
            [] Head(text) = "\\" -> <<"\\", "\\">>
            [] Head(text) = "\"" -> <<"\\", "\"">>
            [] OTHER -> <<Head(text)>>) \o JsonEscape(Tail(text))

JsonString(text) == <<"\"">> \o JsonEscape(text) \o <<"\"">>

\* the text a JSON string literal stands for
RECURSIVE JsonUnescape(_)
JsonUnescape(body) ==
    IF body = <<>> THEN <<>>
    ELSE IF Head(body) = "\\"
      THEN <<IF body[2] = "n" THEN NL ELSE body[2]>> \o JsonUnescape(Drop(body, 2))
      ELSE <<Head(body)>> \o JsonUnescape(Tail(body))

JsonText(literal) == JsonUnescape(SubSeq(literal, 2, Len(literal) - 1))

\* json.dumps of a dict of Template Records: an object is the sequence of its
\* <<member name, value>> pairs
MemberOrder == <<"name", "category", "description", "variables", "template">>

\* the members a record has, in the order _save_as_custom_template writes them
JsonOfRecord(r) ==
    LET present == SelectSeq(MemberOrder, LAMBDA n : n \in DOMAIN r)
    IN  [i \in 1..Len(present) |->
            <<present[i],
              IF present[i] \in {"name", "description", "template"}
                THEN JsonString(r[present[i]]) ELSE r[present[i]]>>]

JsonDumps(d) == [i \in 1..Len(d) |-> <<d[i].key, JsonOfRecord(d[i].val)>>]

JsonMember(obj, name) == obj[CHOOSE i \in 1..Len(obj) : obj[i][1] = name][2]

JsonMemberNames(obj) == {obj[i][1] : i \in 1..Len(obj)}

\* json.loads of such a text: every object becomes a dict of the members it has
JsonLoads(j) ==
    [i \in 1..Len(j) |->
        [key |-> j[i][1],
         val |-> [n \in JsonMemberNames(j[i][2]) |->
                     IF n \in {"name", "description", "template"}
                       THEN JsonText(JsonMember(j[i][2], n))
                       ELSE JsonMember(j[i][2], n)]]]

AbsentFile == [kind |-> "absent", text |-> <<>>]

\* a file whose text is not JSON
GarbageFile == [kind |-> "garbage", text |-> <<>>]

\* a file whose text is a JSON array of numbers
ArrayFile(items) == [kind |-> "json_array", text |-> items]

\* a file whose text is a JSON object with one record that has only a template text
PartialFile ==
    [kind |-> "json",
     text |-> << <<<<"my_debug">>, << <<"template", JsonString(<<"w">>)>> >> >> >>]

\* load_custom_templates(): the value loaded when it is a dict
load_custom_templates(f) ==
    IF f.kind = "absent" THEN <<>>
    ELSE IF f.kind = "json" THEN JsonLoads(f.text)
    ELSE <<>>

\* load_custom_templates() returns a list, the items of the JSON array
LoadsList(f) == f.kind = "json_array"

\* the file save_custom_templates(templates) leaves
save_custom_templates(templates) == [kind |-> "json", text |-> JsonDumps(templates)]

LetterChunks == {"code_review", "sql", "_optimize", "my_debug", "x"}

Digits == {"9", "2"}

MatchesIdSyntax_any(id) == id # <<>>

\* re.match(r'^[a-zA-Z_]\w*$', template_id)
MatchesIdSyntax(id) ==
    /\ id # <<>>
    /\ id[1] \in LetterChunks
    /\ \A i \in 1..Len(id) : id[i] \in LetterChunks \cup Digits

\* re.findall(r'\{(\w+)\}', prompt): the names, from the left, of the
\* non-overlapping matches
RECURSIVE FindPlaceholders(_)
FindPlaceholders(text) ==
    IF text = <<>> THEN <<>>
    ELSE IF Head(text) # "{" THEN FindPlaceholders(Tail(text))
    ELSE LET rest == Tail(text)
             run  == CHOOSE n \in 0..Len(rest) :
                        /\ \A i \in 1..n : rest[i] \in WordChars
                        /\ (n < Len(rest) => rest[n + 1] \notin WordChars)
         IN  IF run >= 1 /\ run < Len(rest) /\ rest[run + 1] = "}"
               THEN <<SubSeq(rest, 1, run)>> \o FindPlaceholders(Drop(rest, run + 1))
               ELSE FindPlaceholders(rest)

ListsOfSet_one(S) == {<<x>> : x \in S} \cup {<<>>}

\* the lists list(set(names)) can be: the distinct names in any order
ListsOfSet(S) ==
    {q \in [1..Cardinality(S) -> S] : \A x \in S : \E i \in DOMAIN q : q[i] = x}

IdInputs == {<<>>, <<"9", "x">>, <<"x", "-">>, <<"code_review">>, <<"my_debug", "2">>}

\* the answers to the name, category and description questions
MetaInputs ==
    { [name |-> <<>>, category |-> "", description |-> <<>>],
      [name |-> <<"Wode Moban">>, category |-> "Kaifa", description |-> <<"Tiaoshi">>] }

\* the builder answers that lead to a save
SaveFieldInputs ==
    {[NoFields EXCEPT !.task = t] :
        t \in {<<"w">>, Placeholder(<<"a">>) \o <<"w">> \o Placeholder(<<"b">>),
               <<"\\", "n", "\"">>}}

SaveStyleInputs == {"1"}

ConfirmInputs == {"y", "Y", "n", ""}

\* str.lower() on the characters that have a capital form here (the tokens
\* that stand for Chinese text have none)
Capitals ==
    <<"A", "B", "C", "D", "E", "F", "G", "H", "I", "J", "K", "L", "M",
      "N", "O", "P", "Q", "R", "S", "T", "U", "V", "W", "X", "Y", "Z">>

Smalls ==
    <<"a", "b", "c", "d", "e", "f", "g", "h", "i", "j", "k", "l", "m",
      "n", "o", "p", "q", "r", "s", "t", "u", "v", "w", "x", "y", "z">>

LowerOf == [ch \in {Capitals[i] : i \in 1..26} |->
               Smalls[CHOOSE i \in 1..26 : Capitals[i] = ch]]

Lower(answer) ==
    IF answer \in DOMAIN LowerOf THEN LowerOf[answer]
    ELSE IF answer = "SQL" THEN "sql"
    ELSE answer

LowerText(text) == [i \in 1..Len(text) |-> Lower(text[i])]

\* dict(d).update(e)
RECURSIVE DictUpdate(_, _)
DictUpdate(d, e) ==
    IF e = <<>> THEN d
    ELSE DictUpdate(DictSet(d, Head(e).key, Head(e).val), Tail(e))

KeysOf(d) == [i \in 1..Len(d) |-> d[i].key]

\* get_all_templates() raises: update() with a non-empty list of numbers
GetAllRaises(f) == LoadsList(f) /\ f.text # <<>>

get_all_templates_builtin_wins(b, f) == DictUpdate(load_custom_templates(f), b)

\* get_all_templates(): the built-in records, updated with the persisted ones
get_all_templates(b, f) == DictUpdate(b, load_custom_templates(f))

\* some record of d lacks one of the members that are read with tpl[...]
LacksMember(d, members) ==
    \E i \in 1..Len(d) : \E n \in members : n \notin DOMAIN d[i].val

\* tpl.get("category", <uncategorised>)
CategoryOf(t) == IF "category" \in DOMAIN t THEN t.category ELSE "Weifenlei"

\* the order sorted() gives the category names of the source
CategoryOrder ==
    <<"Kaifa", "Shujuku", "Wendang", "Weifenlei", "Jiagou", "Zidingyi", "Yunwei", "Tongyong">>

\* the items of the categories from the i-th on, category by category, each in
\* the order of the mapping
RECURSIVE Grouped(_, _, _)
Grouped(templates, category_filter, i) ==
    IF i > Len(CategoryOrder) THEN <<>>
    ELSE (IF category_filter # "" /\ CategoryOrder[i] # category_filter THEN <<>>
          ELSE SelectSeq(templates, LAMBDA e : CategoryOf(e.val) = CategoryOrder[i]))
         \o Grouped(templates, category_filter, i + 1)

\* f"{key} {name} {description} {category} {template}".lower()
Searchable(key, t) ==
    LowerText(key \o <<" ">> \o t.name \o <<" ">> \o t.description \o <<" ">>
              \o <<t.category>> \o <<" ">> \o t.template)

\* the results list of search_templates(keyword)
search_results_cased(templates, keyword) ==
    SelectSeq(templates, LAMBDA e : Contains(Searchable(e.key, e.val), keyword))

search_results(templates, keyword) ==
    SelectSeq(templates, LAMBDA e : Contains(Searchable(e.key, e.val), LowerText(keyword)))

KeywordInputs == {<<"Shujuku">>, <<"sql">>, <<"SQL">>, <<"my_debug">>, <<"zzz">>}

FilterInputs == {"", "Shujuku", "Zidingyi", "Weifenlei", "Qita"}

NoOp == [op |-> "none", id |-> <<>>, confirm |-> "", arg |-> <<>>]

NoShown == <<>>

StoreStart ==
    /\ file \in {AbsentFile, GarbageFile}
    /\ builtin = BUILTIN_TEMPLATES
    /\ lastOp = NoOp
    /\ msg = "none"
    /\ shown = NoShown
    /\ saved = <<>>

\* the store file is not JSON, or is JSON of another shape
MalformedStart ==
    /\ file \in {GarbageFile, ArrayFile(<<>>), ArrayFile(<<"1">>), PartialFile}
    /\ builtin = BUILTIN_TEMPLATES
    /\ lastOp = NoOp
    /\ msg = "none"
    /\ shown = NoShown
    /\ saved = <<>>

\* the store is not in use
StoreIdle ==
    /\ file = AbsentFile
    /\ builtin = BUILTIN_TEMPLATES
    /\ lastOp = NoOp
    /\ msg = "none"
    /\ shown = NoShown
    /\ saved = <<>>

\* the operation ends in an uncaught exception
Raise ==
    /\ msg' = "Traceback"
    /\ shown' = NoShown
    /\ UNCHANGED <<file, builtin, saved>>

\* list_templates(category_filter)
ListTemplates ==
    \E category_filter \in FilterInputs :
        /\ lastOp' = [op |-> "list", id |-> <<>>, confirm |-> "",
                      arg |-> <<category_filter>>]
        /\ IF GetAllRaises(file) THEN Raise
           ELSE LET items == Grouped(get_all_templates(builtin, file), category_filter, 1)
                IN  IF items = <<>>
                      THEN /\ msg' = "no_match"
                           /\ shown' = NoShown
                           /\ UNCHANGED <<file, builtin, saved>>
                    ELSE IF LacksMember(items, {"name", "description"}) THEN Raise
                    ELSE /\ msg' = "listed"
                         /\ shown' = KeysOf(items)
                         /\ UNCHANGED <<file, builtin, saved>>

\* search_templates(keyword)
SearchTemplates ==
    \E keyword \in KeywordInputs :
        /\ lastOp' = [op |-> "search", id |-> <<>>, confirm |-> "", arg |-> keyword]
        /\ IF GetAllRaises(file) THEN Raise
           ELSE LET templates == get_all_templates(builtin, file)
                IN  IF LacksMember(templates, {"name", "description", "category", "template"})
                      THEN Raise
                    ELSE /\ shown' = KeysOf(search_results(templates, keyword))
                         /\ msg' = IF shown' = <<>> THEN "none_found" ELSE "found"
                         /\ UNCHANGED <<file, builtin, saved>>

\* use_template(template_id) up to the display of the rendered prompt, every
\* variable answered <<"w">>, the choice that follows answered with Enter
UseStoredTemplate ==
    \E template_id \in IdInputs \cup {<<"sql", "_optimize">>} :
        /\ lastOp' = [op |-> "use", id |-> template_id, confirm |-> "", arg |-> <<>>]
        /\ IF GetAllRaises(file) THEN Raise
           ELSE LET templates == get_all_templates(builtin, file)
                IN  IF ~DictHas(templates, template_id)
                      THEN /\ msg' = "not_exist"
                           /\ shown' = NoShown
                           /\ UNCHANGED <<file, builtin, saved>>
                    ELSE LET t == DictGet(templates, template_id)
                             variables == IF "variables" \in DOMAIN t THEN t.variables ELSE <<>>
                             vals == [v \in {variables[i] : i \in 1..Len(variables)} |-> <<"w">>]
                         IN  IF \E n \in {"name", "description", "category"} : n \notin DOMAIN t
                               THEN Raise
                             ELSE IF "template" \notin DOMAIN t
                               THEN /\ msg' = "missing_variable"
                                    /\ shown' = NoShown
                                    /\ UNCHANGED <<file, builtin, saved>>
                             ELSE /\ msg' = "shown"
                                  /\ shown' = <<RenderTemplate([template |-> t.template,
                                                                variables |-> variables], vals)>>
                                  /\ UNCHANGED <<file, builtin, saved>>

\* export_templates()
ExportTemplates ==
    /\ lastOp' = [op |-> "export", id |-> <<>>, confirm |-> "", arg |-> <<>>]
    /\ IF GetAllRaises(file) THEN Raise
       ELSE LET templates == get_all_templates(builtin, file)
            IN  IF LacksMember(templates, {"name", "description", "template"}) THEN Raise
                ELSE /\ msg' = "exported"
                     /\ shown' = KeysOf(Grouped(templates, "", 1))
                     /\ UNCHANGED <<file, builtin, saved>>

\* _save_as_custom_template(prompt, role) with the answers id and meta
\* the record _save_as_custom_template builds from the answers
NewRecord(text, id, meta, variables) ==
    [name |-> IF meta.name = <<>> THEN id ELSE meta.name,
     category |-> IF meta.category = "" THEN "Zidingyi" ELSE meta.category,
     description |-> IF meta.description = <<>> THEN <<"Zidingyi Moban">>
                     ELSE meta.description,
     variables |-> variables,
     template |-> text]

\* a save that starts from an empty dict instead of the store
SaveLocal_fresh(f, id, record) == DictSet(<<>>, id, record)

\* custom_templates = load_custom_templates(); custom_templates[id] = record
SaveLocal(f, id, record) == DictSet(load_custom_templates(f), id, record)

\* _save_as_custom_template in a run that has the store to itself; the steps
\* of a save beside another run are SaveRead, StoreOpen and StoreWrite
SaveAsCustomTemplate(text, id, meta) ==
    /\ lastOp' = [op |-> "save", id |-> id, confirm |-> "", arg |-> <<>>]
    /\ IF ~MatchesIdSyntax(id)
         THEN /\ msg' = "invalid_id"
              /\ shown' = NoShown
              /\ UNCHANGED <<file, builtin, saved>>
       ELSE IF LoadsList(file) THEN Raise
       ELSE \E variables \in ListsOfSet({FindPlaceholders(text)[i] :
                                            i \in 1..Len(FindPlaceholders(text))}) :
              /\ saved' = SaveLocal(file, id, NewRecord(text, id, meta, variables))
              /\ file' = save_custom_templates(saved')
              /\ msg' = "saved"
              /\ shown' = NoShown
              /\ UNCHANGED builtin

\* build_prompt() answered so that the prompt is saved as a custom template
\* the answers of the builder runs that save: a plain task with the name,
\* category and description left empty, and the other tasks with them given
SaveInputs ==
    {inp \in [f : SaveFieldInputs, meta : MetaInputs] :
        (inp.f.task = <<"w">>) <=> (inp.meta.name = <<>>)}

BuildPromptSave ==
    \E inp \in SaveInputs, style \in SaveStyleInputs, id \in IdInputs :
        SaveAsCustomTemplate(BuiltPrompt(inp.f, style), id, inp.meta)

\* delete_custom_template() with the answers template_id and confirm, in a
\* run that has the store to itself: nothing else touches the file between
\* its load_custom_templates() and its save_custom_templates().  The steps of
\* a delete beside another run are DeleteRead, DeleteAnswer, DeleteConfirm,
\* StoreOpen and StoreWrite.
DeleteCustomTemplate ==
    \E template_id \in IdInputs, confirm \in ConfirmInputs :
        LET custom == load_custom_templates(file)
        IN  IF LoadsList(file) /\ file.text # <<>>
              THEN /\ lastOp' = [op |-> "delete", id |-> <<>>, confirm |-> "", arg |-> <<>>]
                   /\ Raise
            ELSE IF custom = <<>>
              THEN /\ lastOp' = [op |-> "delete", id |-> <<>>, confirm |-> "", arg |-> <<>>]
                   /\ msg' = "nothing_to_delete"
                   /\ shown' = NoShown
                   /\ UNCHANGED <<file, builtin, saved>>
            ELSE IF LacksMember(custom, {"name"})
              THEN /\ lastOp' = [op |-> "delete", id |-> <<>>, confirm |-> "", arg |-> <<>>]
                   /\ Raise
            ELSE /\ lastOp' = [op |-> "delete", id |-> template_id,
                               confirm |-> IF DictHas(custom, template_id)
                                             THEN confirm ELSE "", arg |-> <<>>]
                 /\ shown' = KeysOf(custom)
                 /\ UNCHANGED builtin
                 /\ IF DictHas(custom, template_id)
                      THEN IF Lower(confirm) = "y"
                             THEN /\ saved' = DictDel(custom, template_id)
                                  /\ file' = save_custom_templates(saved')
                                  /\ msg' = "deleted"
                             ELSE /\ msg' = "delete_cancelled"
                                  /\ UNCHANGED <<file, saved>>
                      ELSE /\ msg' = "not_found"
                           /\ UNCHANGED <<file, saved>>

----------------------------------------------------------------------------
(* Claims about the store, checked under SpecStore *)

BuiltinIds == DictKeysOf(BUILTIN_TEMPLATES)

\* the reports that say nothing was deleted
FailureMsgs == {"nothing_to_delete", "not_found", "delete_cancelled"}

\* C10: in every state reached by builder saves and deletes, a delete of a
\* built-in id, or of an id that is not in the store, reports failure and
\* leaves the store file and the built-in catalog as they were.
C10_DeleteOnlyCustom ==
    [][ ( /\ lastOp'.op = "delete"
          /\ \/ lastOp'.id \in BuiltinIds
             \/ ~DictHas(load_custom_templates(file), lastOp'.id) )
        => ( /\ msg' \in FailureMsgs
             /\ file' = file
             /\ builtin' = builtin ) ]_storeVars

\* C11: the merged catalog has the ids of the built-in set and of the store,
\* gives each id its persisted record when there is one and its built-in
\* record otherwise, and no operation changes the built-in set.
C11_MergedCatalogBuiltinsKept ==
    /\ builtin = BUILTIN_TEMPLATES
    /\ ~GetAllRaises(file) =>
          LET merged == get_all_templates(builtin, file)
              custom == load_custom_templates(file)
          IN  /\ DictKeysOf(merged) = DictKeysOf(builtin) \cup DictKeysOf(custom)
              /\ \A k \in DictKeysOf(merged) :
                    DictGet(merged, k) = IF DictHas(custom, k) THEN DictGet(custom, k)
                                         ELSE DictGet(builtin, k)

\* C11 witness: a record persisted under a built-in id has been used through
\* the merged catalog, next to a persisted record of its own id
C11_Witness ==
    /\ lastOp.op = "use"
    /\ lastOp.id = <<"code_review">>
    /\ msg = "shown"
    /\ DictHas(load_custom_templates(file), <<"code_review">>)
    /\ DictHas(load_custom_templates(file), <<"my_debug", "2">>)
    /\ DictGet(load_custom_templates(file), <<"code_review">>)
          # DictGet(builtin, <<"code_review">>)

\* C12: after save_custom_templates has written a dict of Template Records, a
\* fresh load_custom_templates returns that dict; the record just saved comes
\* back with the same name, category, description, variable list and text.
C12_SaveLoadRoundTrip ==
    msg \in {"saved", "deleted"} =>
        /\ load_custom_templates(file) = saved
        /\ lastOp.op = "save" =>
              /\ DictHas(saved, lastOp.id)
              /\ DictGet(load_custom_templates(file), lastOp.id) = DictGet(saved, lastOp.id)

\* C12 witness: a record whose text holds a backslash, a quote and newlines has
\* been saved next to another record
C12_Witness ==
    /\ msg = "saved"
    /\ Len(saved) >= 2
    /\ Contains(DictGet(saved, lastOp.id).template, <<"\\", "n", "\"">>)
    /\ Contains(DictGet(saved, lastOp.id).template, <<NL>>)

\* an identifier as the claim describes it: not empty, a letter or underscore
\* first, word characters after it
SimpleIdentifier(id) ==
    /\ Len(id) >= 1
    /\ Head(id) \notin Digits \cup {"-"}
    /\ \A i \in 2..Len(id) : id[i] # "-"

\* C13: a builder save under an identifier that is empty or not a simple
\* identifier is rejected with a message and leaves the store file as it was;
\* a save under a simple identifier stores the record under that key.
C13_SaveChecksIdentifier ==
    [][ lastOp'.op = "save" =>
          IF SimpleIdentifier(lastOp'.id)
            THEN /\ msg' = "saved"
                 /\ DictHas(load_custom_templates(file'), lastOp'.id)
            ELSE /\ msg' = "invalid_id"
                 /\ file' = file ]_storeVars

\* C13 witness: a save under an identifier that starts with a digit has been
\* rejected while the store held a record
C13_Witness ==
    /\ lastOp.op = "save"
    /\ lastOp.id = <<"9", "x">>
    /\ msg = "invalid_id"
    /\ Len(load_custom_templates(file)) >= 1

\* the names n for which {n} stands in the text
PlaceholderNames(text) == {<<w>> : w \in {x \in WordChars : Contains(text, Placeholder(<<x>>))}}

NamesIn(variables) == {variables[i] : i \in 1..Len(variables)}

\* C14: the variable list of every built-in record and of every record the
\* builder has saved names exactly the {name} placeholders of its text, and
\* the list of a builder-saved record names none twice.
C14_VariablesArePlaceholders ==
    /\ \A i \in 1..Len(builtin) :
          NamesIn(builtin[i].val.variables) = PlaceholderNames(builtin[i].val.template)
    /\ \A k \in DictKeysOf(load_custom_templates(file)) :
          LET r == DictGet(load_custom_templates(file), k)
          IN  /\ NamesIn(r.variables) = PlaceholderNames(r.template)
              /\ Cardinality(NamesIn(r.variables)) = Len(r.variables)

\* C14 witness: the builder has saved a prompt with two placeholders
C14_Witness ==
    /\ msg = "saved"
    /\ Len(DictGet(load_custom_templates(file), lastOp.id).variables) = 2

\* position of key k in the dictionary d (0 when absent)
DictIndex(d, k) == IF DictHas(d, k) THEN CHOOSE i \in 1..Len(d) : d[i].key = k ELSE 0

\* id, name, description, category and template of a record as one text
CombinedText(k, t) ==
    k \o <<" ">> \o t.name \o <<" ">> \o t.description \o <<" ">> \o <<t.category>>
      \o <<" ">> \o t.template

\* C15: a search that completes reports exactly the templates of the merged
\* catalog whose combined text (id, name, description, category, template)
\* contains the keyword without regard to case, in the insertion order of the
\* merged catalog; the keyword for the database category finds sql_optimize
\* and db_schema_design.
C15_SearchExactMatches ==
    (lastOp.op = "search" /\ msg \in {"found", "none_found"}) =>
        LET merged == get_all_templates(builtin, file)
            kw     == LowerText(lastOp.arg)
        IN  /\ \A k \in DictKeysOf(merged) :
                  (\E i \in 1..Len(shown) : shown[i] = k)
                     <=> Contains(LowerText(CombinedText(k, DictGet(merged, k))), kw)
            /\ \A i \in 1..Len(shown) : DictHas(merged, shown[i])
            /\ \A i, j \in 1..Len(shown) :
                  i < j => DictIndex(merged, shown[i]) < DictIndex(merged, shown[j])
            /\ msg = "none_found" <=> shown = <<>>
            /\ lastOp.arg = <<"Shujuku">> =>
                  /\ \E i \in 1..Len(shown) : shown[i] = <<"sql", "_optimize">>
                  /\ \E i \in 1..Len(shown) : shown[i] = <<"db_schema_design">>

\* C15 witness: with a record in the store, an upper-case keyword finds the
\* two templates whose text holds it in lower or upper case
C15_Witness ==
    /\ lastOp.op = "search"
    /\ lastOp.arg = <<"SQL">>
    /\ shown = <<<<"code_review">>, <<"sql", "_optimize">>>>
    /\ DictHas(load_custom_templates(file), <<"my_debug", "2">>)

\* the records of dict d other than the one under k, in order
OtherRecords(d, k) == SelectSeq(d, LAMBDA e : e.key # k)

\* C30: store updates touch only the targeted record.  After a save under id
\* X every other record of the store is still there, unchanged, and X is
\* there; a delete of X that is answered y (or Y, the answer being
\* lower-cased) removes X and leaves every other record unchanged; a delete
\* that is not confirmed, and a save refused for its id, leave the file as
\* it was.
C30_OnlyTargetTouched ==
    [][ LET before == load_custom_templates(file)
            after  == load_custom_templates(file')
            X      == lastOp'.id
        IN  /\ (lastOp'.op = "save" /\ msg' = "saved") =>
                  /\ DictHas(after, X)
                  /\ OtherRecords(after, X) = OtherRecords(before, X)
            /\ (lastOp'.op = "save" /\ msg' # "saved") => file' = file
            /\ (lastOp'.op = "delete" /\ lastOp'.confirm \in {"y", "Y"}) =>
                  /\ msg' = "deleted"
                  /\ DictHas(before, X)
                  /\ ~DictHas(after, X)
                  /\ OtherRecords(after, X) = OtherRecords(before, X)
            /\ (lastOp'.op = "delete" /\ lastOp'.confirm \notin {"y", "Y"}) =>
                  /\ msg' # "deleted"
                  /\ file' = file ]_vars

\* C30 witness: a record was deleted on the answer y and another record is
\* still in the store
C30_Witness ==
    /\ lastOp.op = "delete"
    /\ lastOp.confirm = "y"
    /\ msg = "deleted"
    /\ ~DictHas(load_custom_templates(file), lastOp.id)
    /\ load_custom_templates(file) # <<>>

----------------------------------------------------------------------------
(* The wizard of claudemd_generator.py: cmd_wizard runs wizard(), assemble  *)
(* and preview_and_save inside one try block.  The wizard builds cfg; a     *)
(* tech item is kept as its characters (a run of Chinese characters is one  *)
(* token), so that the substring test of the defaulting rule is computed.   *)

ROLE_DEFS ==
    <<
    [key |-> "go_backend",
     role_en |-> "senior Go backend engineer with expertise in high-performance API design, concurrency patterns, and production-grade systems",
     role_zh |-> "u8d44u6df1 Go u540eu7aefu5de5u7a0bu5e08uff0cu64c5u957fu9ad8u6027u80fd API u8bbeu8ba1u3001u5e76u53d1u6a21u5f0fu548cu751fu4ea7u7ea7u7cfbu7edf",
     wizard_steps |-> <<"project_info", "tech_go", "project_structure", "commands", "code_style", "core_rules", "workflow", "testing", "error_handling", "security", "git", "hard_rules", "gotchas", "references">>],
    [key |-> "python_backend",
     role_en |-> "senior Python backend engineer with deep expertise in FastAPI/Django, SQLAlchemy, async programming, and production Python systems",
     role_zh |-> "u8d44u6df1 Python u540eu7aefu5de5u7a0bu5e08uff0cu64c5u957f FastAPI/Djangou3001SQLAlchemyu3001u5f02u6b65u7f16u7a0bu548cu751fu4ea7u7ea7 Python u7cfbu7edf",
     wizard_steps |-> <<"project_info", "tech_python", "project_structure", "commands", "code_style", "core_rules", "workflow", "testing", "error_handling", "security", "git", "hard_rules", "gotchas", "references">>],
    [key |-> "devops_sre",
     role_en |-> "senior DevOps/SRE engineer with deep expertise in Linux systems, containers, Kubernetes, CI/CD, monitoring, and infrastructure automation",
     role_zh |-> "u8d44u6df1 DevOps/SRE u5de5u7a0bu5e08uff0cu64c5u957f Linux u7cfbu7edfu3001u5bb9u5668u5316u3001Kubernetesu3001CI/CDu3001u76d1u63a7u548cu57fau7840u8bbeu65bdu81eau52a8u5316",
     wizard_steps |-> <<"project_info", "tech_devops", "project_structure", "commands", "iac_rules", "workflow", "monitoring", "security", "git", "hard_rules", "gotchas", "references">>],
    [key |-> "fullstack",
     role_en |-> "senior full-stack engineer with expertise in modern frontend frameworks and backend API design",
     role_zh |-> "u8d44u6df1u5168u6808u5de5u7a0bu5e08uff0cu64c5u957fu73b0u4ee3u524du7aefu6846u67b6u548cu540eu7aef API u8bbeu8ba1",
     wizard_steps |-> <<"project_info", "tech_fullstack", "project_structure", "commands", "code_style", "core_rules", "workflow", "testing", "security", "git", "hard_rules", "gotchas", "references">>],
    [key |-> "data_engineer",
     role_en |-> "senior data engineer with expertise in ETL pipelines, data quality, batch/stream processing, and data warehousing",
     role_zh |-> "u8d44u6df1u6570u636eu5de5u7a0bu5e08uff0cu64c5u957f ETL u6d41u6c34u7ebfu3001u6570u636eu8d28u91cfu3001u6279u6d41u5904u7406u548cu6570u636eu4ed3u5e93",
     wizard_steps |-> <<"project_info", "tech_data", "project_structure", "commands", "data_rules", "workflow", "testing", "security", "git", "hard_rules", "gotchas", "references">>],
    [key |-> "custom",
     role_en |-> "",
     role_zh |-> "",
     wizard_steps |-> <<"project_info", "tech_generic", "project_structure", "commands", "code_style", "core_rules", "workflow", "testing", "error_handling", "security", "git", "hard_rules", "gotchas", "references">>]
    >>

\* the registry without two of its entries
STEP_REGISTRY_short ==
    {"project_info", "tech_go", "tech_python", "tech_devops",
     "tech_fullstack", "tech_data", "tech_generic", "project_structure",
     "commands", "code_style", "core_rules", "iac_rules", "data_rules",
     "workflow", "testing", "security", "git", "hard_rules", "gotchas",
     "references"}

STEP_REGISTRY ==
    {"project_info", "tech_go", "tech_python", "tech_devops",
     "tech_fullstack", "tech_data", "tech_generic", "project_structure",
     "commands", "code_style", "core_rules", "iac_rules", "data_rules",
     "monitoring", "workflow", "testing", "error_handling", "security",
     "git", "hard_rules", "gotchas", "references"}

RoleKeys == [i \in 1..Len(ROLE_DEFS) |-> ROLE_DEFS[i].key]

RoleDef(key) == ROLE_DEFS[CHOOSE i \in 1..Len(ROLE_DEFS) : ROLE_DEFS[i].key = key]

\* int(raw) for an answer given as its characters: an optional sign, then
\* decimal digits (the answers enumerated hold no blank and no underscore)
DigitVal ==
    [d \in {"0", "1", "2", "3", "4", "5", "6", "7", "8", "9"} |->
        CASE d = "0" -> 0 [] d = "1" -> 1 [] d = "2" -> 2 [] d = "3" -> 3
          [] d = "4" -> 4 [] d = "5" -> 5 [] d = "6" -> 6 [] d = "7" -> 7
          [] d = "8" -> 8 [] OTHER -> 9]

Unsigned(raw) == IF raw # <<>> /\ Head(raw) \in {"+", "-"} THEN Tail(raw) ELSE raw

\* int(raw) does not raise ValueError
IsInt(raw) ==
    /\ Unsigned(raw) # <<>>
    /\ \A i \in 1..Len(Unsigned(raw)) : Unsigned(raw)[i] \in DOMAIN DigitVal

RECURSIVE DigitsValue(_)
DigitsValue(ds) ==
    IF ds = <<>> THEN 0
    ELSE 10 * DigitsValue(SubSeq(ds, 1, Len(ds) - 1)) + DigitVal[ds[Len(ds)]]

IntValue(raw) ==
    IF Head(raw) = "-" THEN 0 - DigitsValue(Unsigned(raw)) ELSE DigitsValue(Unsigned(raw))

\* the index test without its lower bound: a negative index counts from the end
ask_multi_wraps(raw, options, default) ==
    IF raw = <<>> /\ default # "" THEN default
    ELSE IF IsInt(raw) /\ IntValue(raw) - 1 < Len(options)
                       /\ 0 - Len(options) <= IntValue(raw) - 1
      THEN IF IntValue(raw) - 1 >= 0 THEN options[IntValue(raw)]
           ELSE options[Len(options) + IntValue(raw)]
    ELSE IF default # "" THEN default
    ELSE options[1]

\* ask_multi(prompt, options, default) for the stripped answer raw and the
\* keys of the options; default "" stands for no default
ask_multi(raw, options, default) ==
    IF raw = <<>> /\ default # "" THEN default
    ELSE IF IsInt(raw) /\ 0 <= IntValue(raw) - 1 /\ IntValue(raw) - 1 < Len(options)
      THEN options[IntValue(raw)]
    ELSE IF default # "" THEN default
    ELSE options[1]

\* the call ends in the IndexError of options[0] raised in the except clause
ask_multi_raises(raw, options, default) ==
    /\ options = <<>>
    /\ default = ""

\* ask(prompt, default) for the stripped answer raw
Ask(raw, default) == IF raw = <<>> THEN default ELSE raw

\* ask_yn(prompt, default) for the stripped answer raw
ask_yn(raw, default) ==
    IF Lower(raw) = "" THEN default ELSE Lower(raw) \in {"y", "yes", "u662f"}

\* ask_cmds for typed lines, each the pair of texts around its first "="
RECURSIVE ask_cmds(_)
ask_cmds(typed) ==
    IF typed = <<>> THEN <<>>
    ELSE LET rest == ask_cmds(SubSeq(typed, 1, Len(typed) - 1))
             last == typed[Len(typed)]
         IN  IF \E i \in 1..Len(rest) : rest[i][1] = last[1]
               THEN [i \in 1..Len(rest) |-> IF rest[i][1] = last[1] THEN last ELSE rest[i]]
               ELSE Append(rest, last)

\* cfg[k] = v
SetKey(c, k, v) == [x \in DOMAIN c \cup {k} |-> IF x = k THEN v ELSE c[x]]

\* f"**{L(zh, en)}**: {value}"
TechItem(zh, en, lg, value) ==
    <<"*", "*">> \o L(zh, en, lg) \o <<"*", "*", ":", " ">> \o value

\* the list step_tech_go stores: the first question answered a (Enter when
\* empty), every other question answered with Enter
tech_go_items(a, lg) ==
    <<
        TechItem(<<"u8bedu8a00">>, <<"L", "a", "n", "g", "u", "a", "g", "e">>, lg,
                 Ask(a, <<"G", "o", " ", "1", ".", "2", "3", "+">>)),
        TechItem(<<"H", "T", "T", "P", " ", "u6846u67b6">>, <<"H", "T", "T", "P", " ", "F", "r", "a", "m", "e", "w", "o", "r", "k">>, lg,
                 <<"G", "i", "n">>),
        TechItem(<<"u6570u636eu5e93">>, <<"D", "a", "t", "a", "b", "a", "s", "e">>, lg,
                 <<"P", "o", "s", "t", "g", "r", "e", "S", "Q", "L", " ", "+", " ", "R", "e", "d", "i", "s">>),
        TechItem(<<"u6570u636eu5e93u8bbfu95ee">>, <<"D", "B", " ", "A", "c", "c", "e", "s", "s">>, lg,
                 <<"s", "q", "l", "x">>),
        TechItem(<<"u8fc1u79fbu5de5u5177">>, <<"M", "i", "g", "r", "a", "t", "i", "o", "n">>, lg,
                 <<"g", "o", "l", "a", "n", "g", "-", "m", "i", "g", "r", "a", "t", "e">>),
        TechItem(<<"u914du7f6eu7ba1u7406">>, <<"C", "o", "n", "f", "i", "g">>, lg,
                 <<"V", "i", "p", "e", "r">>),
        TechItem(<<"u65e5u5fd7">>, <<"L", "o", "g", "g", "i", "n", "g">>, lg,
                 <<"s", "l", "o", "g", " ", "(", "s", "t", "d", "l", "i", "b", ")">>),
        TechItem(<<"u53efu89c2u6d4bu6027">>, <<"O", "b", "s", "e", "r", "v", "a", "b", "i", "l", "i", "t", "y">>, lg,
                 <<"O", "p", "e", "n", "T", "e", "l", "e", "m", "e", "t", "r", "y", " ", "+", " ", "P", "r", "o", "m", "e", "t", "h", "e", "u", "s">>),
        TechItem(<<"u90e8u7f72">>, <<"D", "e", "p", "l", "o", "y">>, lg,
                 <<"D", "o", "c", "k", "e", "r", " ", "+", " ", "K", "u", "b", "e", "r", "n", "e", "t", "e", "s">>),
        TechItem(<<"u64cdu4f5cu7cfbu7edf">>, <<"O", "S">>, lg,
                 <<"L", "i", "n", "u", "x", " ", "(", "U", "b", "u", "n", "t", "u", " ", "2", "2", ".", "0", "4", "+", ")">>)
    >>

\* the list step_tech_python stores: the first question answered a (Enter when
\* empty), every other question answered with Enter
tech_python_items(a, lg) ==
    <<
        TechItem(<<"u8bedu8a00">>, <<"L", "a", "n", "g", "u", "a", "g", "e">>, lg,
                 Ask(a, <<"P", "y", "t", "h", "o", "n", " ", "3", ".", "1", "2", "+">>)),
        TechItem(<<"W", "e", "b", " ", "u6846u67b6">>, <<"W", "e", "b", " ", "F", "r", "a", "m", "e", "w", "o", "r", "k">>, lg,
                 <<"F", "a", "s", "t", "A", "P", "I", " ", "+", " ", "U", "v", "i", "c", "o", "r", "n">>),
        TechItem(<<"u6570u636eu5e93">>, <<"D", "a", "t", "a", "b", "a", "s", "e">>, lg,
                 <<"P", "o", "s", "t", "g", "r", "e", "S", "Q", "L">>),
        TechItem(<<"O", "R", "M">>, <<"O", "R", "M">>, lg,
                 <<"S", "Q", "L", "A", "l", "c", "h", "e", "m", "y", " ", "2", ".", "0", " ", "(", "a", "s", "y", "n", "c", ")">>),
        TechItem(<<"u8fc1u79fbu5de5u5177">>, <<"M", "i", "g", "r", "a", "t", "i", "o", "n">>, lg,
                 <<"A", "l", "e", "m", "b", "i", "c">>),
        TechItem(<<"u6570u636eu9a8cu8bc1">>, <<"V", "a", "l", "i", "d", "a", "t", "i", "o", "n">>, lg,
                 <<"P", "y", "d", "a", "n", "t", "i", "c", " ", "v", "2">>),
        TechItem(<<"u5305u7ba1u7406">>, <<"P", "a", "c", "k", "a", "g", "e", " ", "M", "a", "n", "a", "g", "e", "r">>, lg,
                 <<"u", "v">>),
        TechItem(<<"L", "i", "n", "t", " ", "/", " ", "F", "o", "r", "m", "a", "t">>, <<"L", "i", "n", "t", " ", "/", " ", "F", "o", "r", "m", "a", "t">>, lg,
                 <<"r", "u", "f", "f">>),
        TechItem(<<"u7c7bu578bu68c0u67e5">>, <<"T", "y", "p", "e", " ", "C", "h", "e", "c", "k">>, lg,
                 <<"m", "y", "p", "y">>),
        TechItem(<<"u6d4bu8bd5u6846u67b6">>, <<"T", "e", "s", "t", " ", "F", "r", "a", "m", "e", "w", "o", "r", "k">>, lg,
                 <<"p", "y", "t", "e", "s", "t", " ", "+", " ", "h", "t", "t", "p", "x">>),
        TechItem(<<"u90e8u7f72">>, <<"D", "e", "p", "l", "o", "y">>, lg,
                 <<"D", "o", "c", "k", "e", "r", " ", "+", " ", "K", "u", "b", "e", "r", "n", "e", "t", "e", "s">>),
        TechItem(<<"u64cdu4f5cu7cfbu7edf">>, <<"O", "S">>, lg,
                 <<"L", "i", "n", "u", "x", " ", "(", "U", "b", "u", "n", "t", "u", " ", "2", "2", ".", "0", "4", "+", ")">>)
    >>

\* the list step_tech_devops stores: the first question answered a (Enter when
\* empty), every other question answered with Enter
tech_devops_items(a, lg) ==
    <<
        TechItem(<<"u4e91u5e73u53f0">>, <<"C", "l", "o", "u", "d">>, lg,
                 Ask(a, <<"A", "W", "S">>)),
        TechItem(<<"I", "a", "C", " ", "u5de5u5177">>, <<"I", "a", "C">>, lg,
                 <<"T", "e", "r", "r", "a", "f", "o", "r", "m">>),
        TechItem(<<"u914du7f6eu7ba1u7406">>, <<"C", "o", "n", "f", "i", "g", " ", "M", "g", "m", "t">>, lg,
                 <<"A", "n", "s", "i", "b", "l", "e">>),
        TechItem(<<"u5bb9u5668">>, <<"C", "o", "n", "t", "a", "i", "n", "e", "r">>, lg,
                 <<"D", "o", "c", "k", "e", "r", " ", "+", " ", "c", "o", "n", "t", "a", "i", "n", "e", "r", "d">>),
        TechItem(<<"u7f16u6392">>, <<"O", "r", "c", "h", "e", "s", "t", "r", "a", "t", "i", "o", "n">>, lg,
                 <<"K", "u", "b", "e", "r", "n", "e", "t", "e", "s", " ", "(", "E", "K", "S", ")">>),
        TechItem(<<"C", "I", "/", "C", "D">>, <<"C", "I", "/", "C", "D">>, lg,
                 <<"G", "i", "t", "H", "u", "b", " ", "A", "c", "t", "i", "o", "n", "s">>),
        TechItem(<<"u76d1u63a7">>, <<"M", "o", "n", "i", "t", "o", "r", "i", "n", "g">>, lg,
                 <<"P", "r", "o", "m", "e", "t", "h", "e", "u", "s", " ", "+", " ", "G", "r", "a", "f", "a", "n", "a">>),
        TechItem(<<"u65e5u5fd7">>, <<"L", "o", "g", "g", "i", "n", "g">>, lg,
                 <<"L", "o", "k", "i", " ", "+", " ", "G", "r", "a", "f", "a", "n", "a">>),
        TechItem(<<"u5bc6u94a5u7ba1u7406">>, <<"S", "e", "c", "r", "e", "t", "s">>, lg,
                 <<"A", "W", "S", " ", "S", "e", "c", "r", "e", "t", "s", " ", "M", "a", "n", "a", "g", "e", "r", " ", "/", " ", "V", "a", "u", "l", "t">>),
        TechItem(<<"u811au672c">>, <<"S", "c", "r", "i", "p", "t", "i", "n", "g">>, lg,
                 <<"B", "a", "s", "h", ",", " ", "P", "y", "t", "h", "o", "n", ",", " ", "G", "o">>),
        TechItem(<<"u64cdu4f5cu7cfbu7edf">>, <<"O", "S">>, lg,
                 <<"U", "b", "u", "n", "t", "u", " ", "2", "2", ".", "0", "4", " ", "/", " ", "A", "m", "a", "z", "o", "n", " ", "L", "i", "n", "u", "x", " ", "2", "0", "2", "3">>)
    >>

\* the list step_tech_fullstack stores: the first question answered a (Enter when
\* empty), every other question answered with Enter
tech_fullstack_items(a, lg) ==
    <<
        TechItem(<<"u524du7aef">>, <<"F", "r", "o", "n", "t", "e", "n", "d">>, lg,
                 Ask(a, <<"T", "y", "p", "e", "S", "c", "r", "i", "p", "t">>) \o <<" ", "+", " ">> \o <<"R", "e", "a", "c", "t", " ", "/", " ", "N", "e", "x", "t", ".", "j", "s">>),
        TechItem(<<"u540eu7aef">>, <<"B", "a", "c", "k", "e", "n", "d">>, lg,
                 <<"G", "o">> \o <<" ", "+", " ">> \o <<"G", "i", "n">>),
        TechItem(<<"u6570u636eu5e93">>, <<"D", "a", "t", "a", "b", "a", "s", "e">>, lg,
                 <<"P", "o", "s", "t", "g", "r", "e", "S", "Q", "L", " ", "+", " ", "R", "e", "d", "i", "s">>),
        TechItem(<<"A", "P", "I", " ", "u98ceu683c">>, <<"A", "P", "I", " ", "S", "t", "y", "l", "e">>, lg,
                 <<"R", "E", "S", "T", "f", "u", "l", " ", "+", " ", "O", "p", "e", "n", "A", "P", "I">>),
        TechItem(<<"u90e8u7f72">>, <<"D", "e", "p", "l", "o", "y">>, lg,
                 <<"D", "o", "c", "k", "e", "r", " ", "+", " ", "V", "e", "r", "c", "e", "l", " ", "(", "F", "E", ")", " ", "+", " ", "K", "8", "s", " ", "(", "B", "E", ")">>)
    >>

\* the list step_tech_data stores: the first question answered a (Enter when
\* empty), every other question answered with Enter
tech_data_items(a, lg) ==
    <<
        TechItem(<<"u8bedu8a00">>, <<"L", "a", "n", "g", "u", "a", "g", "e">>, lg,
                 Ask(a, <<"P", "y", "t", "h", "o", "n", " ", "3", ".", "1", "2", "+">>)),
        TechItem(<<"u6570u636eu5904u7406">>, <<"P", "r", "o", "c", "e", "s", "s", "i", "n", "g">>, lg,
                 <<"p", "a", "n", "d", "a", "s", " ", "/", " ", "p", "o", "l", "a", "r", "s">>),
        TechItem(<<"u8c03u5ea6">>, <<"O", "r", "c", "h", "e", "s", "t", "r", "a", "t", "i", "o", "n">>, lg,
                 <<"A", "i", "r", "f", "l", "o", "w", " ", "/", " ", "D", "a", "g", "s", "t", "e", "r">>),
        TechItem(<<"u5b58u50a8">>, <<"S", "t", "o", "r", "a", "g", "e">>, lg,
                 <<"S", "3", " ", "+", " ", "P", "a", "r", "q", "u", "e", "t">>),
        TechItem(<<"u6570u636eu4ed3u5e93">>, <<"W", "a", "r", "e", "h", "o", "u", "s", "e">>, lg,
                 <<"C", "l", "i", "c", "k", "H", "o", "u", "s", "e", " ", "/", " ", "B", "i", "g", "Q", "u", "e", "r", "y">>),
        TechItem(<<"u6570u636eu9a8cu8bc1">>, <<"V", "a", "l", "i", "d", "a", "t", "i", "o", "n">>, lg,
                 <<"p", "a", "n", "d", "e", "r", "a", " ", "/", " ", "g", "r", "e", "a", "t", "_", "e", "x", "p", "e", "c", "t", "a", "t", "i", "o", "n", "s">>),
        TechItem(<<"u57fau7840u8bbeu65bd">>, <<"I", "n", "f", "r", "a", "s", "t", "r", "u", "c", "t", "u", "r", "e">>, lg,
                 <<"D", "o", "c", "k", "e", "r", ",", " ", "A", "i", "r", "f", "l", "o", "w">>)
    >>

----------------------------------------------------------------------------
(* ask_multi called on its own *)

\* the lines typed, stripped
RawAnswers ==
    {<<>>, <<"x">>, <<"-">>, <<"1", "x">>, <<"2", ".", "0">>, <<"0">>, <<"-", "1">>,
     <<"-", "2">>, <<"1">>, <<"2">>, <<"+", "2">>, <<"0", "3">>, <<"4">>, <<"5">>,
     <<"1", "2">>}

\* the keys of the options offered
OptionLists == {[i \in 1..n |-> "k" \o ToString(i)] : n \in 0..MaxOptions}

\* no default, the key of an option, a key that is not offered
DefaultKeys == {"", "k2", "other"}

NoCall == [raw |-> <<>>, options |-> <<>>, default |-> ""]

AskStart ==
    /\ askIn \in [raw : RawAnswers, options : OptionLists, default : DefaultKeys]
    /\ askOut = [ended |-> "no"]

\* ask_multi is not in use
AskIdle ==
    /\ askIn = NoCall
    /\ askOut = [ended |-> "no"]

AskMulti ==
    /\ askOut.ended = "no"
    /\ askOut' =
          IF ask_multi_raises(askIn.raw, askIn.options, askIn.default)
            THEN [ended |-> "IndexError"]
            ELSE [ended |-> "returned",
                  value |-> ask_multi(askIn.raw, askIn.options, askIn.default)]
    /\ UNCHANGED askIn

\* the typed line is the 1-based index n of an option
IsIndex(raw, n) ==
    \/ n <= 9 /\ raw = <<ToString(n)>>
    \/ n <= 9 /\ raw = <<"+", ToString(n)>>
    \/ n <= 9 /\ raw = <<"0", ToString(n)>>
    \/ n = 12 /\ raw = <<"1", "2">>

\* C22: for every typed line and every non-empty option list ask_multi
\* returns without raising; it returns the key of the option the line
\* selects when the line is a valid 1-based index, otherwise the default, or
\* the key of the first option when there is no default.
C22_AskMultiFallsBack ==
    (askOut.ended # "no" /\ askIn.options # <<>>) =>
        /\ askOut.ended = "returned"
        /\ IF \E n \in 1..Len(askIn.options) : IsIndex(askIn.raw, n)
             THEN \E n \in 1..Len(askIn.options) :
                     IsIndex(askIn.raw, n) /\ askOut.value = askIn.options[n]
             ELSE askOut.value = IF askIn.default # "" THEN askIn.default
                                 ELSE askIn.options[1]

\* C22 witness: a call without default has answered the line -1 with the
\* key of the first of three options
C22_Witness ==
    /\ askOut.ended = "returned"
    /\ askIn.raw = <<"-", "1">>
    /\ askIn.default = ""
    /\ Len(askIn.options) = 3
    /\ askOut.value = "k1"

----------------------------------------------------------------------------
(* The answers of one wizard run *)

\* what is typed at a list prompt before the empty line
LineAnswers == {<<>>, <<"r1">>}

\* what is typed at the first tech question and as the one free tech line
TechAnswers ==
    {<<>>, <<"D", "j", "a", "n", "g", "o">>, <<"G", "O">>, <<"R", "u", "s", "t">>}

YnAnswers == {"", "y", "N"}

LangAnswers == {<<>>, <<"1">>, <<"2">>, <<"7">>, <<"x">>}

RoleAnswers ==
    {<<>>, <<"0">>, <<"1">>, <<"2">>, <<"3">>, <<"4">>, <<"5">>, <<"6">>, <<"x">>}

SaveChoices == {"1", "2", "3", ""}

PathAnswers == {"", "out/CLAUDE.md"}

AnswerScripts == [lines : LineAnswers, tech : TechAnswers, yn : YnAnswers]

\* the free tech lines typed: none, or the one line
TechLines(a) == IF a.tech = <<>> THEN <<>> ELSE <<a.tech>>

\* the command lines typed: none, or test=go test ./...
CmdLines(a) == IF a.lines = <<>> THEN <<>> ELSE << <<"test", "go test ./...">> >>

RECURSIVE JoinLines(_)
JoinLines(ls) ==
    IF ls = <<>> THEN ""
    ELSE IF Len(ls) = 1 THEN ls[1]
    ELSE ls[1] \o "\n" \o JoinLines(Tail(ls))

----------------------------------------------------------------------------
(* The step functions *)

step_project_info(c, lg) ==
    SetKey(SetKey(SetKey(SetKey(c,
        "project_name", "my-project"),
        "project_desc", ""),
        "project_type", "Backend API"),
        "project_status", L("u5f00u53d1u4e2d", "Active development", lg))

step_tech_go(c, a, lg) ==
    SetKey(c, "tech_items",
           tech_go_items(a.tech, lg)
             \o (IF ask_yn(a.yn, FALSE) THEN TechLines(a) ELSE <<>>))

step_tech_python(c, a, lg) == SetKey(c, "tech_items", tech_python_items(a.tech, lg))

step_tech_devops(c, a, lg) == SetKey(c, "tech_items", tech_devops_items(a.tech, lg))

step_tech_fullstack(c, a, lg) == SetKey(c, "tech_items", tech_fullstack_items(a.tech, lg))

step_tech_data(c, a, lg) == SetKey(c, "tech_items", tech_data_items(a.tech, lg))

step_tech_generic(c, a) == SetKey(c, "tech_items", TechLines(a))

step_project_structure(c, a) ==
    IF ask_yn(a.yn, TRUE) THEN SetKey(c, "project_structure", JoinLines(a.lines)) ELSE c

step_commands(c, a) == SetKey(c, "commands", ask_cmds(CmdLines(a)))

\* an IaC step that also stores a testing_rules answer
step_iac_rules_testing(c, a) ==
    SetKey(SetKey(SetKey(c, "core_rules", a.lines), "code_style_rules", a.lines),
           "testing_rules", a.lines)

step_iac_rules(c, a) == SetKey(SetKey(c, "core_rules", a.lines), "code_style_rules", a.lines)

step_data_rules(c, a) == SetKey(SetKey(c, "core_rules", a.lines), "code_style_rules", a.lines)

\* the key written by a step function that stores one ask_lines answer
LinesKey(step_name) ==
    CASE step_name = "code_style"     -> "code_style_rules"
      [] step_name = "core_rules"     -> "core_rules"
      [] step_name = "monitoring"     -> "testing_rules"
      [] step_name = "workflow"       -> "workflow"
      [] step_name = "testing"        -> "testing_rules"
      [] step_name = "error_handling" -> "error_handling"
      [] step_name = "security"       -> "security_rules"
      [] step_name = "git"            -> "git_rules"
      [] step_name = "hard_rules"     -> "hard_rules"
      [] step_name = "gotchas"        -> "gotchas"
      [] step_name = "references"     -> "references"

\* step_fn(cfg) for step_fn = STEP_REGISTRY[step_name]
step_fn(step_name, c, a, lg) ==
    CASE step_name = "project_info"      -> step_project_info(c, lg)
      [] step_name = "tech_go"           -> step_tech_go(c, a, lg)
      [] step_name = "tech_python"       -> step_tech_python(c, a, lg)
      [] step_name = "tech_devops"       -> step_tech_devops(c, a, lg)
      [] step_name = "tech_fullstack"    -> step_tech_fullstack(c, a, lg)
      [] step_name = "tech_data"         -> step_tech_data(c, a, lg)
      [] step_name = "tech_generic"      -> step_tech_generic(c, a)
      [] step_name = "project_structure" -> step_project_structure(c, a)
      [] step_name = "commands"          -> step_commands(c, a)
      [] step_name = "iac_rules"         -> step_iac_rules(c, a)
      [] step_name = "data_rules"        -> step_data_rules(c, a)
      [] OTHER                           -> SetKey(c, LinesKey(step_name), a.lines)

----------------------------------------------------------------------------
(* The defaulting rules at the end of wizard() *)

DefaultThinking(lg) ==
    <<
      L("u63a5u5230u590du6742u4efbu52a1u65f6uff0cu5148u89c4u5212u65b9u6848u518du5b9eu73b0",
        "For complex tasks, plan before implementing", lg),
      L("u4e0du786eu5b9au9879u76eeu7ea6u5b9au65f6uff0cu5148u641cu7d22u73b0u6709u4ee3u7801u53c2u8003",
        "When unsure about conventions, search existing code first", lg),
      L("u4feeu6539u516cu5171u63a5u53e3u524duff0cu5148u67e5u627eu6240u6709u8c03u7528u65b9u8bc4u4f30u5f71u54cd",
        "Before changing interfaces, grep callers to assess impact", lg)
    >>

DefaultVerification(lg) ==
    <<
      L("lint u68c0u67e5u901au8fc7",
        "Lint checks pass", lg),
      L("u6d4bu8bd5u5168u90e8u901au8fc7",
        "All tests pass", lg),
      L("u7f16u8bd1u6210u529f",
        "Build succeeds", lg),
      L("u6ca1u6709u786cu7f16u7801u5bc6u94a5",
        "No hardcoded secrets", lg)
    >>

\* str(items) for a list of strings without quote or backslash characters
RECURSIVE ReprItems(_)
ReprItems(items) ==
    IF items = <<>> THEN <<>>
    ELSE <<"'">> \o Head(items) \o <<"'">>
           \o (IF Len(items) = 1 THEN <<>> ELSE <<",", " ">> \o ReprItems(Tail(items)))

StrOfList(items) == <<"[">> \o ReprItems(items) \o <<"]">>

\* "go" in str(cfg.get("tech_items", [])).lower()
MentionsGo_cased(c) == Contains(StrOfList(Get(c, "tech_items", <<>>)), <<"g", "o">>)

MentionsGo(c) == Contains(LowerText(StrOfList(Get(c, "tech_items", <<>>))), <<"g", "o">>)

WizardDefaults(c, lg) ==
    LET c1 == IF "thinking_strategy" \in DOMAIN c THEN c
              ELSE SetKey(c, "thinking_strategy", DefaultThinking(lg))
    IN  IF "verification" \in DOMAIN c1 THEN c1
        ELSE SetKey(c1, "verification",
                    IF MentionsGo(c1) THEN DefaultVerification(lg) ELSE <<>>)

\* the characters of a string joined into the string
RECURSIVE Str(_)
Str(chars) == IF chars = <<>> THEN "" ELSE Head(chars) \o Str(Tail(chars))

\* the mapping with its tech items as strings, as assemble reads it
AsStrings(c) ==
    IF "tech_items" \in DOMAIN c
      THEN [c EXCEPT !["tech_items"] = [i \in 1..Len(@) |-> Str(@[i])]]
      ELSE c

----------------------------------------------------------------------------
(* The presets of the quick command.  Each factory returns its mapping in    *)
(* the language it is given: zh = (lang == "zh") picks the first text.       *)
(* A character outside ASCII is written u and its code point, a backquote    *)
(* as a single quote.                                                        *)

_go_api_preset(lg) ==
    ("project_name" :>
        "my-go-api") @@
    ("project_desc" :>
        L("Go RESTful API u540eu7aefu670du52a1u3002",
            "Go RESTful API backend service.", lg)) @@
    ("project_type" :>
        "Backend API Service") @@
    ("project_status" :>
        L("u5f00u53d1u4e2d",
            "Active development", lg)) @@
    ("role" :>
        "senior Go backend engineer with expertise in high-performance API design, concurrency patterns, and production-grade systems") @@
    ("persona_extras" :>
        <<
          "Write idiomatic Go u2014 simple, readable, and explicit",
          "Prefer stdlib solutions over third-party libraries when reasonable",
          "Think about performance, but measure before optimizing",
          "When unsure about project conventions, read existing code in 'internal/' first"
        >>) @@
    ("tech_items" :>
        <<
          L("**u8bedu8a00**: Go 1.23+",
            "**Language**: Go 1.23+", lg),
          L("**HTTP u6846u67b6**: Gin / Echo / Chi",
            "**HTTP Framework**: Gin / Echo / Chi", lg),
          L("**u6570u636eu5e93**: PostgreSQL + Redis",
            "**Database**: PostgreSQL + Redis", lg),
          L("**u6570u636eu5e93u8bbfu95ee**: sqlx (u4f18u5148u539fu751f SQL)",
            "**DB Access**: sqlx (prefer raw SQL over heavy ORM)", lg),
          L("**u8fc1u79fbu5de5u5177**: golang-migrate",
            "**Migration**: golang-migrate", lg),
          L("**u914du7f6e**: Viper / envconfig",
            "**Config**: Viper / envconfig", lg),
          L("**u65e5u5fd7**: slog (u6807u51c6u5e93u7ed3u6784u5316u65e5u5fd7)",
            "**Logging**: slog (stdlib structured logging)", lg),
          L("**u53efu89c2u6d4bu6027**: OpenTelemetry + Prometheus",
            "**Observability**: OpenTelemetry + Prometheus", lg),
          L("**u90e8u7f72**: Docker + Kubernetes",
            "**Deploy**: Docker + Kubernetes", lg),
          L("**u64cdu4f5cu7cfbu7edf**: Linux (Ubuntu 22.04+)",
            "**OS**: Linux (Ubuntu 22.04+)", lg)
        >>) @@
    ("project_structure" :>
        L(".\nu251cu2500u2500 cmd/              # u5e94u7528u5165u53e3\nu2502   u2514u2500u2500 server/       # API u670du52a1u4e3bu7a0bu5e8f\nu251cu2500u2500 internal/         # u79c1u6709u4ee3u7801uff08u4e0du53efu88abu5916u90e8u5bfcu5165uff09\nu2502   u251cu2500u2500 handler/      # HTTP u5904u7406u5668\nu2502   u251cu2500u2500 service/      # u4e1au52a1u903bu8f91u5c42\nu2502   u251cu2500u2500 repository/   # u6570u636eu8bbfu95eeu5c42\nu2502   u251cu2500u2500 model/        # u9886u57dfu6a21u578b\nu2502   u2514u2500u2500 middleware/   # HTTP u4e2du95f4u4ef6\nu251cu2500u2500 pkg/              # u53efu590du7528u516cu5171u5305\nu251cu2500u2500 api/              # OpenAPI/Swagger u89c4u8303\nu251cu2500u2500 migrations/       # u6570u636eu5e93u8fc1u79fbu6587u4ef6\nu251cu2500u2500 deploy/           # u90e8u7f72u914du7f6e (Dockerfile, K8s)\nu251cu2500u2500 scripts/          # u6784u5efau4e0eu5de5u5177u811au672c\nu251cu2500u2500 Makefile\nu251cu2500u2500 go.mod\nu2514u2500u2500 CLAUDE.md",
            ".\nu251cu2500u2500 cmd/              # Application entrypoints\nu2502   u2514u2500u2500 server/       # Main API server\nu251cu2500u2500 internal/         # Private application code\nu2502   u251cu2500u2500 handler/      # HTTP handlers\nu2502   u251cu2500u2500 service/      # Business logic\nu2502   u251cu2500u2500 repository/   # Data access layer\nu2502   u251cu2500u2500 model/        # Domain models\nu2502   u2514u2500u2500 middleware/   # HTTP middleware\nu251cu2500u2500 pkg/              # Public reusable packages\nu251cu2500u2500 api/              # OpenAPI/Swagger specs\nu251cu2500u2500 migrations/       # Database migrations\nu251cu2500u2500 deploy/           # Deployment configs (Docker, K8s)\nu251cu2500u2500 scripts/          # Build and utility scripts\nu251cu2500u2500 Makefile\nu251cu2500u2500 go.mod\nu2514u2500u2500 CLAUDE.md", lg)) @@
    ("commands" :>
        <<
          <<L("u542fu52a8u5f00u53d1u670du52a1",
            "Run dev server", lg), "go run ./cmd/server">>,
          <<L("u8fd0u884cu5168u90e8u6d4bu8bd5",
            "Run all tests", lg), "go test ./...">>,
          <<L("u8fd0u884cu5355u4e2au6d4bu8bd5",
            "Run single test", lg), "go test ./internal/service -run TestXxx -v">>,
          <<L("u4ee3u7801u68c0u67e5",
            "Lint", lg), "golangci-lint run ./...">>,
          <<L("u7f16u8bd1",
            "Build", lg), "go build -o bin/server ./cmd/server">>,
          <<L("u6570u636eu5e93u8fc1u79fb",
            "Migration up", lg), "migrate -path migrations -database $DB_URL up">>,
          <<L("u751fu6210 Mock",
            "Generate mocks", lg), "go generate ./...">>
        >>) @@
    ("code_style_rules" :>
        <<
          L("u9075u5faa Effective Go u548c Go Code Review Comments",
            "Follow Effective Go and Go Code Review Comments", lg),
          L("'gofmt' / 'goimports' u683cu5f0fu5316u2014u2014u4e0du4e89u8bbau98ceu683c",
            "'gofmt' / 'goimports' for formatting u2014 never argue about style", lg),
          L("u5bfcu51fau540du79f0u5fc5u987bu6709u6587u6863u6ce8u91ca",
            "Exported names must have doc comments", lg),
          L("u51fdu6570u4e0du8d85u8fc7 50 u884cuff1bu8d85u8fc7u5219u62c6u5206",
            "Keep functions under 50 lines; split if longer", lg),
          L("u4f7fu7528 Table-Driven u6d4bu8bd5",
            "Use table-driven tests", lg),
          L("u9519u8befu4fe1u606fuff1au5c0fu5199u3001u65e0u6807u70b9u3001u7528 'fmt.Errorf(\"doing x: %w\", err)' u5305u88c5",
            "Error messages: lowercase, no punctuation, wrap with 'fmt.Errorf(\"doing x: %w\", err)'", lg),
          L("u63a5u53e3u6309u884cu4e3au547du540d: 'Reader', 'Validator'uff0cu4e0du7528 'IReader'",
            "Name interfaces by behavior: 'Reader', 'Validator', not 'IReader'", lg)
        >>) @@
    ("core_rules" :>
        <<
          L("u59cbu7ec8u5904u7406u9519u8befu2014u2014u7981u6b62u7528 '_' u4e22u5f03 error",
            "Always handle errors u2014 never use '_' to discard errors", lg),
          L("I/O u51fdu6570u7684u7b2cu4e00u4e2au53c2u6570u5fc5u987bu662f 'context.Context'",
            "Use 'context.Context' as first parameter in functions that do I/O", lg),
          L("u6253u5f00u8d44u6e90u540eu7acbu5373u7528 'defer' u5173u95ed",
            "Close resources with 'defer' immediately after opening", lg),
          L("u7981u6b62u5728 'init()' u4e2du653eu975eu5e73u51e1u903bu8f91",
            "Never use 'init()' for non-trivial logic", lg),
          L("u4f7fu7528u4f9du8d56u6ce8u5165uff1bu4e0du4f7fu7528u5168u5c40u53efu53d8u72b6u6001",
            "Use dependency injection; no global mutable state", lg),
          L("u6240u6709 SQL u5fc5u987bu4f7fu7528u53c2u6570u5316u67e5u8be2uff08u9632 SQL u6ce8u5165uff09",
            "All SQL must use parameterized queries (prevent SQL injection)", lg),
          L("HTTP Handler u5fc5u987bu6821u9a8cu548cu6e05u7406u6240u6709u8f93u5165",
            "HTTP handlers must validate and sanitize all input", lg),
          L("u5171u4eabu72b6u6001u7684u5e76u53d1u8bbfu95eeu5fc5u987bu7528 mutex u6216 channel u4fddu62a4",
            "Concurrent access to shared state must use mutexes or channels", lg)
        >>) @@
    ("workflow" :>
        <<
          L("u5148u9605u8bfbu76f8u5173u4ee3u7801uff0cu7406u89e3u73b0u6709u6a21u5f0fuff0cu518du52a8u624bu4feeu6539",
            "Read relevant code and understand existing patterns before making changes", lg),
          L("u5bf9u975eu5e73u51e1u529fu80fduff0cu5148u5236u5b9au8ba1u5212u5e76u786eu8ba4u540eu518du5b9eu73b0",
            "Create a plan and confirm before implementing non-trivial features", lg),
          L("u4feeu6539u4ee3u7801u65f6u540cu6b65u7f16u5199u6216u66f4u65b0u6d4bu8bd5",
            "Write or update tests alongside code changes", lg),
          L("u8fd0u884c 'golangci-lint run ./...' u786eu4fddu65e0 lint u95eeu9898",
            "Run 'golangci-lint run ./...' to verify no lint issues", lg),
          L("u8fd0u884c 'go test ./...' u786eu4fddu65e0u56deu5f52",
            "Run 'go test ./...' to verify no regressions", lg),
          L("u4fddu6301 commit u5c0fu4e14u805au7126u2014u2014u4e00u4e2au903bu8f91u53d8u66f4u4e00u4e2a commit",
            "Keep commits small and focused u2014 one logical change per commit", lg)
        >>) @@
    ("thinking_strategy" :>
        <<
          L("u63a5u5230u590du6742u4efbu52a1u65f6uff0cu5148u7528 think/ultrathink u89c4u5212u65b9u6848uff0cu5f97u5230u786eu8ba4u540eu518du5199u4ee3u7801",
            "For complex tasks, use think/ultrathink to plan first. Get confirmation before coding.", lg),
          L("u9047u5230u4e0du786eu5b9au7684u9879u76eeu7ea6u5b9au65f6uff0cu5148u641cu7d22 'internal/' u76eeu5f55u4e2du7684u73b0u6709u4ee3u7801u4f5cu4e3au53c2u8003",
            "When unsure about conventions, search existing code in 'internal/' for reference patterns", lg),
          L("u4feeu6539u516cu5171u63a5u53e3u524duff0cu5148u7528 grep u67e5u627eu6240u6709u8c03u7528u65b9uff0cu8bc4u4f30u5f71u54cdu8303u56f4",
            "Before changing public interfaces, grep all callers and assess impact", lg),
          L("u5982u679cu4efbu52a1u6d89u53cau591au4e2au6587u4ef6uff0cu5148u5217u51fau9700u8981u4feeu6539u7684u6587u4ef6u6e05u5355",
            "If a task spans multiple files, list all files to change before starting", lg)
        >>) @@
    ("testing_rules" :>
        <<
          L("u7528 Table-Driven u6d4bu8bd5u8986u76d6u591au8f93u5165u573au666f",
            "Use table-driven tests for functions with multiple input/output cases", lg),
          L("u7528 'testify/assert' u6216u6807u51c6u5e93 'testing' u505au65adu8a00",
            "Use 'testify/assert' or stdlib 'testing' for assertions", lg),
          L("u901au8fc7u63a5u53e3 Mock u5916u90e8u4f9du8d56uff0cu4e0du4f9du8d56u5177u4f53u5b9eu73b0",
            "Mock external dependencies with interfaces, not concrete types", lg),
          L("u96c6u6210u6d4bu8bd5u653eu5728 '_test.go' u4e2duff0cu7528 build tag '//go:build integration'",
            "Integration tests in '_test.go' files with build tag '//go:build integration'", lg),
          L("u4e3au6027u80fdu5173u952eu8defu5f84u7f16u5199 Benchmark: 'func BenchmarkXxx(b *testing.B)'",
            "Benchmark critical paths with 'func BenchmarkXxx(b *testing.B)'", lg)
        >>) @@
    ("error_handling" :>
        <<
          L("u8fd4u56deu9519u8befuff0cu4e0du8981 panicuff08u9664u975eu771fu6b63u4e0du53efu6062u590duff09",
            "Return errors, don't panic (except truly unrecoverable situations)", lg),
          L("u7528u4e0au4e0bu6587u5305u88c5u9519u8bef: 'fmt.Errorf(\"creating user: %w\", err)'",
            "Wrap errors with context: 'fmt.Errorf(\"creating user: %w\", err)'", lg),
          L("u7528u54e8u5175u9519u8befu5904u7406u9884u671fu9519u8bef: 'var ErrNotFound = errors.New(...)'",
            "Use sentinel errors for expected errors: 'var ErrNotFound = errors.New(...)'", lg),
          L("u5728u8fb9u754cu5c42uff08handleruff09u8bb0u5f55u65e5u5fd7uff0cu4e0du5728u4e1au52a1u903bu8f91u6df1u5904",
            "Log errors at the boundary (handler), not deep in business logic", lg),
          L("Handler u5c42u5c06u9886u57dfu9519u8befu6620u5c04u4e3au5bf9u5e94 HTTP u72b6u6001u7801",
            "HTTP handlers: map domain errors to appropriate status codes", lg)
        >>) @@
    ("security_rules" :>
        <<
          L("u7981u6b62u786cu7f16u7801u5bc6u94a5u2014u2014u4f7fu7528u73afu5883u53d8u91cfu6216u5bc6u94a5u7ba1u7406u5668",
            "Never hardcode secrets u2014 use environment variables or secret managers", lg),
          L("u6240u6709u7528u6237u8f93u5165u5fc5u987bu9a8cu8bc1u540eu518du5904u7406",
            "All user input must be validated before processing", lg),
          L("u53eau4f7fu7528u53c2u6570u5316 SQL u67e5u8be2u2014u2014u7981u6b62u5b57u7b26u4e32u62fcu63a5 SQL",
            "Use parameterized SQL queries exclusively u2014 NO string concatenation", lg),
          L("u6240u6709 HTTP u5ba2u6237u7aefu548cu6570u636eu5e93u8fdeu63a5u5fc5u987bu8bbeu7f6eu8d85u65f6",
            "Set timeouts on all HTTP clients and database connections", lg),
          L("u5bf9u5916u63a5u53e3u5b9eu65bdu9650u6d41",
            "Rate limit public-facing endpoints", lg)
        >>) @@
    ("git_rules" :>
        <<
          L("u5206u652fu547du540d: 'feature/xxx', 'fix/xxx', 'refactor/xxx'",
            "Branch naming: 'feature/xxx', 'fix/xxx', 'refactor/xxx'", lg),
          L("Commit u6d88u606f: Conventional Commits u683cu5f0f u2014 'type(scope): description'",
            "Commit messages: Conventional Commits u2014 'type(scope): description'", lg),
          L("u59cbu7ec8u5728u529fu80fdu5206u652fu5f00u53d1uff0cu7981u6b62u76f4u63a5u63d0u4ea4u5230 main",
            "Always work on feature branches, never commit directly to main", lg)
        >>) @@
    ("hard_rules" :>
        <<
          L("u7981u6b62u63d0u4ea4u5bc6u94a5u3001API Keyu3001u5bc6u7801u6216u8bc1u4e66u5230u4ed3u5e93",
            "NEVER commit secrets, API keys, passwords, or certificates", lg),
          L("u7981u6b62u5728 'main()' u4e4bu5916u4f7fu7528 'os.Exit()'",
            "NEVER use 'os.Exit()' outside of 'main()'", lg),
          L("u7981u6b62u7528 'panic()' u5904u7406u5e38u89c4u9519u8bef",
            "NEVER use 'panic()' for normal error handling", lg),
          L("u7981u6b62u7528 '_' u5ffdu7565 error u8fd4u56deu503c",
            "NEVER ignore errors with blank identifier '_'", lg),
          L("u7981u6b62u672au7ecfu6279u51c6u4f7fu7528 'unsafe' u5305",
            "NEVER use 'unsafe' package without explicit approval", lg),
          L("u7981u6b62u624bu52a8u4feeu6539u751fu6210u7684u6587u4ef6uff08protobuf, mock u7b49uff09",
            "NEVER modify generated files (protobuf, mocks) by hand", lg),
          L("u7981u6b62u672au7ecfu8ba8u8bbau6dfbu52a0u65b0u4f9du8d56",
            "NEVER add dependencies without discussing the rationale", lg)
        >>) @@
    ("gotchas" :>
        <<
          L("'internal/' u76eeu5f55u6709 Go u5305u53efu89c1u6027u9650u5236u2014u2014u5916u90e8u6a21u5757u65e0u6cd5u5bfcu5165",
            "'internal/' enforces Go package visibility u2014 external modules cannot import", lg),
          L("'context.Background()' u53eau5728 'main()' u6216u9876u5c42u4f7fu7528u2014u2014u5176u4ed6u5730u65b9u5fc5u987bu4f20u9012 context",
            "'context.Background()' only in 'main()' u2014 pass context everywhere else", lg),
          L("u6ce8u610f goroutine u6cc4u6f0fu2014u2014u59cbu7ec8u786eu4fdd goroutine u6709u9000u51fau8defu5f84",
            "Watch for goroutine leaks u2014 always ensure goroutines can exit", lg),
          L("JSON struct tag u4f7fu7528 snake_case: 'json:\"field_name\"'",
            "JSON struct tags use snake_case: 'json:\"field_name\"'", lg),
          L("u65f6u95f4u5904u7406: u59cbu7ec8u4f7fu7528 'time.Time' u548c 'time.Duration'uff0cu4e0du7528u88f8u6574u6570",
            "Time: always use 'time.Time' / 'time.Duration', never raw integers", lg)
        >>) @@
    ("verification" :>
        <<
          L("'golangci-lint run ./...' u901au8fc7uff0cu65e0u62a5u9519",
            "'golangci-lint run ./...' passes with no errors", lg),
          L("'go test ./...' u5168u90e8u901au8fc7",
            "'go test ./...' all pass", lg),
          L("'go build ./...' u7f16u8bd1u6210u529f",
            "'go build ./...' compiles successfully", lg),
          L("u65b0u589eu516cu5171u51fdu6570u6709u6587u6863u6ce8u91ca",
            "New public functions have doc comments", lg),
          L("u6ca1u6709u5f15u5165u672au8ba8u8bbau7684u65b0u4f9du8d56",
            "No undiscussed new dependencies introduced", lg),
          L("u6ca1u6709u786cu7f16u7801u7684u5bc6u94a5u6216u914du7f6eu503c",
            "No hardcoded secrets or config values", lg),
          L("u4feeu6539u8fc7u7684u4ee3u7801u6709u5bf9u5e94u7684u6d4bu8bd5u8986u76d6",
            "Changed code has corresponding test coverage", lg)
        >>) @@
    ("references" :>
        <<
          L("u9879u76eeu5e03u5c40: 'cmd/', 'internal/', 'pkg/'",
            "Project layout: 'cmd/', 'internal/', 'pkg/'", lg),
          L("API u89c4u8303: 'api/openapi.yaml'",
            "API spec: 'api/openapi.yaml'", lg),
          L("u90e8u7f72u914du7f6e: 'deploy/' (Dockerfile, K8s)",
            "Deployment: 'deploy/' (Dockerfile, K8s)", lg),
          L("u4e1au52a1u903bu8f91u793au4f8b: 'internal/service/'",
            "Business logic examples: 'internal/service/'", lg)
        >>)

_devops_preset(lg) ==
    ("project_name" :>
        "infra") @@
    ("project_desc" :>
        L("u57fau7840u8bbeu65bdu5373u4ee3u7801u4e0e DevOps u81eau52a8u5316u3002",
            "Infrastructure as Code and DevOps automation.", lg)) @@
    ("project_type" :>
        "DevOps / Infrastructure") @@
    ("project_status" :>
        L("u8fd0u884cu4e2d",
            "Active", lg)) @@
    ("role" :>
        "senior DevOps/SRE engineer with deep expertise in Linux, containers, Kubernetes, CI/CD, monitoring, and infrastructure automation") @@
    ("persona_extras" :>
        <<
          L("u6bcfu6b21u53d8u66f4u90fdu8981u8003u8651u5e42u7b49u6027u3001u53efu9760u6027u548cu56deu6edau65b9u6848",
            "Think about idempotency, reliability, and rollback for every change", lg),
          L("u505au4e24u6b21u4ee5u4e0au7684u4e8bu60c5u5c31u8981u81eau52a8u5316",
            "Automate everything done more than twice", lg),
          L("u57fau7840u8bbeu65bdu5373u4ee3u7801u2014u2014u7248u672cu63a7u5236u3001u5ba1u67e5u3001u6d4bu8bd5",
            "Treat infrastructure as code u2014 version control, review, test", lg),
          L("u53d8u66f4u524du8bc4u4f30u5f71u54cdu8303u56f4uff08u7206u70b8u534au5f84uff09",
            "Always consider blast radius before applying changes", lg)
        >>) @@
    ("tech_items" :>
        <<
          L("**u4e91u5e73u53f0**: AWS / GCP / Azure",
            "**Cloud**: AWS / GCP / Azure", lg),
          "**IaC**: Terraform",
          L("**u914du7f6eu7ba1u7406**: Ansible",
            "**Config Mgmt**: Ansible", lg),
          L("**u5bb9u5668**: Docker + containerd",
            "**Container**: Docker + containerd", lg),
          L("**u7f16u6392**: Kubernetes (EKS/GKE/AKS)",
            "**Orchestration**: Kubernetes (EKS/GKE/AKS)", lg),
          "**CI/CD**: GitHub Actions / GitLab CI",
          L("**u76d1u63a7**: Prometheus + Grafana + AlertManager",
            "**Monitoring**: Prometheus + Grafana + AlertManager", lg),
          L("**u65e5u5fd7**: Loki / ELK",
            "**Logging**: Loki / ELK", lg),
          L("**u5bc6u94a5u7ba1u7406**: Vault / AWS Secrets Manager",
            "**Secrets**: Vault / AWS Secrets Manager", lg),
          L("**u811au672c**: Bash, Python, Go",
            "**Scripting**: Bash, Python, Go", lg),
          L("**u64cdu4f5cu7cfbu7edf**: Ubuntu 22.04 / Amazon Linux 2023",
            "**OS**: Ubuntu 22.04 / Amazon Linux 2023", lg)
        >>) @@
    ("project_structure" :>
        L(".\nu251cu2500u2500 terraform/\nu2502   u251cu2500u2500 modules/        # u53efu590du7528 TF u6a21u5757\nu2502   u251cu2500u2500 environments/   # u6309u73afu5883u533au5206u914du7f6e\nu2502   u2502   u251cu2500u2500 dev/\nu2502   u2502   u251cu2500u2500 staging/\nu2502   u2502   u2514u2500u2500 prod/\nu2502   u2514u2500u2500 global/         # u5168u5c40u5171u4eabu8d44u6e90\nu251cu2500u2500 ansible/\nu2502   u251cu2500u2500 roles/\nu2502   u251cu2500u2500 playbooks/\nu2502   u2514u2500u2500 inventory/\nu251cu2500u2500 k8s/\nu2502   u251cu2500u2500 base/           # Kustomize base\nu2502   u2514u2500u2500 overlays/       # u6309u73afu5883u8986u76d6u5c42\nu251cu2500u2500 docker/\nu251cu2500u2500 scripts/            # u8fd0u7ef4u811au672c\nu251cu2500u2500 .github/workflows/  # CI/CD\nu251cu2500u2500 Makefile\nu2514u2500u2500 CLAUDE.md",
            ".\nu251cu2500u2500 terraform/\nu2502   u251cu2500u2500 modules/        # Reusable TF modules\nu2502   u251cu2500u2500 environments/   # Per-environment configs\nu2502   u2502   u251cu2500u2500 dev/\nu2502   u2502   u251cu2500u2500 staging/\nu2502   u2502   u2514u2500u2500 prod/\nu2502   u2514u2500u2500 global/         # Global shared resources\nu251cu2500u2500 ansible/\nu2502   u251cu2500u2500 roles/\nu2502   u251cu2500u2500 playbooks/\nu2502   u2514u2500u2500 inventory/\nu251cu2500u2500 k8s/\nu2502   u251cu2500u2500 base/           # Kustomize base\nu2502   u2514u2500u2500 overlays/       # Per-env overlays\nu251cu2500u2500 docker/\nu251cu2500u2500 scripts/            # Operational scripts\nu251cu2500u2500 .github/workflows/  # CI/CD\nu251cu2500u2500 Makefile\nu2514u2500u2500 CLAUDE.md", lg)) @@
    ("commands" :>
        <<
          <<L("TF u521du59cbu5316",
            "TF init", lg), "cd terraform/environments/dev && terraform init">>,
          <<L("TF u8ba1u5212",
            "TF plan", lg), "terraform plan -var-file=terraform.tfvars">>,
          <<L("TF u6267u884c",
            "TF apply", lg), "terraform apply -var-file=terraform.tfvars">>,
          <<L("Ansible u68c0u6d4b",
            "Ansible ping", lg), "ansible all -m ping -i ansible/inventory/dev">>,
          <<L("Ansible u6267u884c",
            "Ansible playbook", lg), "ansible-playbook -i ansible/inventory/dev ansible/playbooks/site.yml">>,
          <<L("K8s u90e8u7f72",
            "K8s apply", lg), "kubectl apply -k k8s/overlays/dev/">>,
          <<L("Docker u6784u5efa",
            "Docker build", lg), "docker build -t app:latest -f docker/Dockerfile .">>,
          <<L("TF u683cu5f0fu5316",
            "TF format", lg), "terraform fmt -check -recursive">>,
          <<L("Shell u68c0u67e5",
            "Shell lint", lg), "shellcheck scripts/*.sh">>
        >>) @@
    ("code_style_rules" :>
        <<
          L("Shell u811au672c: u5f00u5934u5fc5u987b 'set -euo pipefail'",
            "Shell scripts: 'set -euo pipefail' at the top", lg),
          L("Shell u811au672c: u5fc5u987bu901au8fc7 'shellcheck'",
            "Shell scripts: must pass 'shellcheck'", lg),
          L("Terraform: 'terraform fmt' u683cu5f0fu5316uff0c'tflint' u68c0u67e5",
            "Terraform: 'terraform fmt' + 'tflint'", lg),
          L("YAML: 2 u7a7au683cu7f29u8fdbuff0cu4e0du7528 Tab",
            "YAML: 2-space indent, no tabs", lg),
          L("u547du540d: u8d44u6e90u7528 snake_case, K8s u5bf9u8c61u7528 kebab-case",
            "Naming: snake_case for resources, kebab-case for k8s objects", lg)
        >>) @@
    ("core_rules" :>
        <<
          L("u6240u6709u57fau7840u8bbeu65bdu53d8u66f4u5fc5u987bu901au8fc7u4ee3u7801u5ba1u67e5 (PR)",
            "ALL infrastructure changes must go through PR review", lg),
          L("u6267u884c 'terraform apply' u524du5fc5u987bu5148 'plan' u5e76u5ba1u67e5",
            "ALWAYS run 'terraform plan' and review before 'terraform apply'", lg),
          L("u751fu4ea7u73afu5883u53d8u66f4u5fc5u987bu6709u56deu6edau65b9u6848",
            "Production changes must have a documented rollback plan", lg),
          L("u7528u6a21u5757u5c01u88c5u53efu590du7528u57fau7840u8bbeu65bdu2014u2014u7981u6b62u590du5236u7c98u8d34",
            "Use modules for reusable infrastructure u2014 don't copy-paste", lg),
          L("u6240u6709u4e91u8d44u6e90u6253u6807u7b7e: environment, team, managed-by",
            "Tag all cloud resources: environment, team, managed-by", lg),
          L("Terraform u72b6u6001u5fc5u987bu7528u8fdcu7aefu5b58u50a8 + u9501",
            "Use remote state with locking for Terraform", lg),
          L("u5bc6u94a5u5fc5u987bu5728 Vault u6216u4e91u5bc6u94a5u7ba1u7406u5668u4e2duff0cu7981u6b62u5199u5728u4ee3u7801u91cc",
            "Secrets must be in Vault or cloud secret managers, never in code", lg)
        >>) @@
    ("workflow" :>
        <<
          L("u5148u4e86u89e3u5f53u524du57fau7840u8bbeu65bdu72b6u6001u548cu6a21u5757u7ed3u6784",
            "Read the current infrastructure state and module structure first", lg),
          L("u5236u5b9au53d8u66f4u8ba1u5212uff1au5f71u54cdu54eau4e9bu6a21u5757u3001u54eau4e9bu73afu5883u3001u56deu6edau6b65u9aa4",
            "Plan: which modules, which environments, rollback steps", lg),
          L("u6309 dev u2192 staging u2192 prod u987au5e8fu9010u73afu5883u5e94u7528",
            "Apply in dev u2192 staging u2192 prod order", lg),
          L("u6bcfu4e2au73afu5883u53d8u66f4u540eu8fd0u884cu5192u70dfu6d4bu8bd5u9a8cu8bc1",
            "Verify with smoke tests after each environment", lg),
          L("u53d8u66f4u5b8cu6210u540eu66f4u65b0u6587u6863u548c runbook",
            "Update docs and runbooks after changes", lg)
        >>) @@
    ("thinking_strategy" :>
        <<
          L("u53d8u66f4u57fau7840u8bbeu65bdu524duff0cu5148u5217u51fau5f71u54cdu7684u8d44u6e90u548cu4f9du8d56u5173u7cfb",
            "Before infra changes, list affected resources and dependencies", lg),
          L("u9ad8u98ceu9669u64cdu4f5cuff08u5220u9664u3001u8fc1u79fbu72b6u6001uff09u524duff0cu5148u786eu8ba4u5907u4efdu548cu56deu6edau65b9u6848",
            "Before high-risk ops (destroy, state mv), confirm backup and rollback", lg),
          L("u4e0du786eu5b9au65f6uff0cu5148u7528 'terraform plan' u8f93u51fau8bc4u4f30u5f71u54cd",
            "When unsure, assess impact with 'terraform plan' output first", lg),
          L("u8de8u73afu5883u53d8u66f4u65f6uff0cu5148u5728 dev u9a8cu8bc1uff0cu786eu8ba4u540eu518du63a8u8fdb",
            "For cross-env changes, validate in dev first before proceeding", lg)
        >>) @@
    ("testing_rules" :>
        <<
          L("'terraform validate' + 'tflint' u68c0u67e5u6240u6709 TF u4ee3u7801",
            "'terraform validate' + 'tflint' on all TF code", lg),
          L("'tfsec' / 'checkov' u5b89u5168u626bu63cf",
            "'tfsec' / 'checkov' for security scanning", lg),
          L("Shell u811au672c: 'shellcheck' + 'bats' u6d4bu8bd5u6846u67b6",
            "Shell scripts: 'shellcheck' + 'bats' testing", lg),
          L("Ansible: 'molecule' u6d4bu8bd5u89d2u8272",
            "Ansible: 'molecule' for role testing", lg)
        >>) @@
    ("error_handling" :>
        <<
          L("Shell: 'set -e' u5febu901fu5931u8d25; 'trap' u6e05u7406u8d44u6e90",
            "Shell: 'set -e' fail fast; 'trap' for cleanup", lg),
          L("Terraform: u9690u5f0fu4f9du8d56u4e0du591fu65f6u663eu5f0fu4f7fu7528 'depends_on'",
            "Terraform: use 'depends_on' explicitly when implicit deps aren't enough", lg),
          L("u59cbu7ec8u6709u56deu6edau65b9u6848: u4e0au4e00u7248 TF u72b6u6001u3001u4e0au4e00u7248 K8s u6e05u5355",
            "Always have rollback: previous TF state, previous K8s manifests", lg)
        >>) @@
    ("security_rules" :>
        <<
          L("u7981u6b62u5728 Terraform/Ansible/u811au672cu4e2du786cu7f16u7801u5bc6u94a5",
            "NEVER hardcode secrets in Terraform, Ansible, or scripts", lg),
          L("IAM u6700u5c0fu6743u9650u2014u2014u751fu4ea7u73afu5883u7981u6b62 wildcard (*)",
            "Least-privilege IAM u2014 no wildcard (*) in production", lg),
          L("u6240u6709u5b58u50a8u548cu6570u636eu5e93u542fu7528u9759u6001u52a0u5bc6 + u4f20u8f93u52a0u5bc6",
            "Enable encryption at rest and in transit for all data stores", lg),
          L("Docker u955cu50cfu6f0fu6d1eu626bu63cf (Trivy/Snyk)",
            "Scan Docker images for vulnerabilities (Trivy/Snyk)", lg),
          L("u7f51u7edc: u9ed8u8ba4u62d2u7edduff0cu4ec5u653eu884cu6240u9700u6d41u91cf",
            "Network: default-deny; allow only required traffic", lg)
        >>) @@
    ("git_rules" :>
        <<
          L("u5206u652f: 'infra/xxx' u7528u4e8eu57fau7840u8bbeu65bdu53d8u66f4",
            "Branch: 'infra/xxx' for infrastructure changes", lg),
          "Conventional Commits: 'infra(scope): description'",
          L("PR u63cfu8ff0u4e2du5305u542b 'terraform plan' u8f93u51fa",
            "Include 'terraform plan' output in PR description", lg)
        >>) @@
    ("hard_rules" :>
        <<
          L("u7981u6b62u672au7ecfu5ba1u67e5u7684 plan u76f4u63a5 apply u5230u751fu4ea7",
            "NEVER 'terraform apply' on prod without a reviewed plan", lg),
          L("u7981u6b62u63d0u4ea4u5bc6u94a5u3001Token u6216u79c1u94a5",
            "NEVER commit secrets, tokens, or private keys", lg),
          L("u7981u6b62u4f7fu7528 'chmod 777'",
            "NEVER use 'chmod 777'", lg),
          L("u7981u6b62u672au5907u4efdu5c31u5220u9664u6709u72b6u6001u8d44u6e90uff08u6570u636eu5e93u3001S3uff09",
            "NEVER delete stateful resources without backup verification", lg),
          L("u7981u6b62u5173u95edu5b89u5168u529fu80fduff08u9632u706bu5899u3001SELinuxuff09u6765u6392u969c",
            "NEVER disable security features as a troubleshooting step", lg),
          L("u7981u6b62u7528 'curl | bash' u5b89u88c5u751fu4ea7u8f6fu4ef6",
            "NEVER use 'curl | bash' for production software", lg),
          L("u7981u6b62u5728u7248u672cu63a7u5236u4e4bu5916u4feeu6539u751fu4ea7u57fau7840u8bbeu65bd",
            "NEVER modify production infra outside version-controlled IaC", lg)
        >>) @@
    ("gotchas" :>
        <<
          L("Terraform state u542bu654fu611fu6570u636eu2014u2014u52a0u5bc6u4e14u9650u5236u8bbfu95ee",
            "Terraform state contains secrets u2014 encrypt and restrict access", lg),
          L("'terraform destroy' u5bf9u6709u72b6u6001u8d44u6e90u4e0du53efu9006u2014u2014u53cdu590du786eu8ba4",
            "'terraform destroy' is irreversible for stateful resources", lg),
          L("K8s 'default' u547du540du7a7au95f4u4e0du5e94u8dd1u5de5u4f5cu8d1fu8f7d",
            "K8s 'default' namespace should not run workloads", lg),
          L("Ansible 'become: yes' u4ee5 root u6267u884cu2014u2014u6ce8u610fu6587u4ef6u6743u9650",
            "Ansible 'become: yes' runs as root u2014 watch file permissions", lg)
        >>) @@
    ("verification" :>
        <<
          L("'terraform fmt -check' u901au8fc7",
            "'terraform fmt -check' passes", lg),
          L("'terraform validate' u901au8fc7",
            "'terraform validate' passes", lg),
          L("'tflint' u65e0u9519u8bef",
            "'tflint' has no errors", lg),
          L("'shellcheck scripts/*.sh' u901au8fc7",
            "'shellcheck scripts/*.sh' passes", lg),
          L("u6ca1u6709u786cu7f16u7801u7684u5bc6u94a5u6216 IP u5730u5740",
            "No hardcoded secrets or IP addresses", lg),
          L("u4e91u8d44u6e90u6807u7b7eu5b8cu6574",
            "Cloud resource tags are complete", lg),
          L("u53d8u66f4u6709u5bf9u5e94u7684u56deu6edau6b65u9aa4u8bb0u5f55",
            "Changes have documented rollback steps", lg)
        >>) @@
    ("references" :>
        <<
          L("TF u6a21u5757: 'terraform/modules/'",
            "TF modules: 'terraform/modules/'", lg),
          L("u73afu5883u914du7f6e: 'terraform/environments/{env}/'",
            "Env configs: 'terraform/environments/{env}/'", lg),
          L("K8s u6e05u5355: 'k8s/' (Kustomize overlays)",
            "K8s manifests: 'k8s/' (Kustomize overlays)", lg),
          L("u8fd0u7ef4u811au672c: 'scripts/'",
            "Scripts: 'scripts/'", lg)
        >>)

\* PRESET_FACTORIES: the names that have a factory
PRESET_FACTORIES == {"go-api", "devops"}

\* the value _get_preset returns for a name without a factory
None == <<"None">>

\* a lookup that falls back to the first factory
_get_preset_fallback(name, lg) ==
    IF name = "devops" THEN _devops_preset(lg) ELSE _go_api_preset(lg)

_get_preset(name, lg) ==
    IF name \in PRESET_FACTORIES
      THEN IF name = "go-api" THEN _go_api_preset(lg) ELSE _devops_preset(lg)
      ELSE None

----------------------------------------------------------------------------
(* cmd_wizard as a state machine: one action for every stretch of prompts.  *)
(* cfg, lang and doc are the wizard's mapping, the _LANG flag it sets and    *)
(* the content it hands to preview_and_save.                                *)

NoFile == <<>>

NoAnswers == [lines |-> <<>>, tech |-> <<>>, yn |-> ""]

\* preset names given to the quick command: the two with a factory, one of
\* _SIMPLE_PRESET_META and one that is in neither table
PresetNames == {"go-api", "devops", "go-cli", "zzz"}

\* the command lines: --en or not, then wizard, quick <preset> or example
Argvs ==
    {a \in [en : BOOLEAN, command : {"wizard", "quick", "example"},
            preset : PresetNames \cup {""}] :
        (a.command = "quick") <=> (a.preset # "")}

NoArgv == [en |-> FALSE, command |-> "", preset |-> ""]

WizStart ==
    /\ wizPc = "main"
    /\ argv \in Argvs
    /\ role_key = ""
    /\ stepNo = 0
    /\ stepsRun = <<>>
    /\ answers \in (IF argv.command = "wizard" THEN AnswerScripts ELSE {NoAnswers})
    /\ written = NoFile
    /\ wizMsg = ""

\* the wizard is not in use
WizIdle ==
    /\ wizPc = "off"
    /\ argv = NoArgv
    /\ role_key = ""
    /\ stepNo = 0
    /\ stepsRun = <<>>
    /\ answers = NoAnswers
    /\ written = NoFile
    /\ wizMsg = ""

\* main(): the global --en argument; without it _LANG keeps its value
MainLang(a, lg) == IF a.en THEN "en" ELSE lg

\* main() with the wizard command, up to the language question of wizard()
CmdWizard ==
    /\ wizPc = "main"
    /\ argv.command = "wizard"
    /\ lang' = MainLang(argv, lang)
    /\ wizPc' = "language"
    /\ UNCHANGED <<cfg, cfg0, doc, asmCount, asmLangs, role_key, stepNo, stepsRun, answers,
                   written, wizMsg, argv>>

\* main() with the quick command: cmd_quick up to the question of
\* preview_and_save, or its return on a name without a preset
CmdQuick ==
    /\ wizPc = "main"
    /\ argv.command = "quick"
    /\ lang' = MainLang(argv, lang)
    /\ LET preset == _get_preset(argv.preset, lang')
       IN  IF preset = None
             THEN /\ wizMsg' = "unknown_preset"
                  /\ wizPc' = "done"
                  /\ UNCHANGED <<cfg, doc>>
             ELSE /\ cfg' = assemble_cfg(preset, lang')
                  /\ doc' = assemble(preset, lang')
                  /\ wizPc' = "save"
                  /\ UNCHANGED wizMsg
    /\ UNCHANGED <<cfg0, asmCount, asmLangs, role_key, stepNo, stepsRun, answers, written, argv>>

\* main() with the example command: cmd_example prints the go-api document
CmdExample ==
    /\ wizPc = "main"
    /\ argv.command = "example"
    /\ lang' = MainLang(argv, lang)
    /\ cfg' = assemble_cfg(_go_api_preset(lang'), lang')
    /\ doc' = assemble(_go_api_preset(lang'), lang')
    /\ wizMsg' = "printed"
    /\ wizPc' = "done"
    /\ UNCHANGED <<cfg0, asmCount, asmLangs, role_key, stepNo, stepsRun, answers, written, argv>>

\* wizard(): the language question and set_lang
WizardLanguage ==
    /\ wizPc = "language"
    /\ \E raw \in LangAnswers : lang' = ask_multi(raw, <<"zh", "en">>, "zh")
    /\ wizPc' = "role"
    /\ UNCHANGED <<cfg, cfg0, doc, asmCount, asmLangs, role_key, stepNo, stepsRun, answers,
                   written, wizMsg, argv>>

\* wizard(): the role question, the description asked of a custom role and
\* the persona lines
WizardRole ==
    /\ wizPc = "role"
    /\ \E raw \in RoleAnswers :
          /\ role_key' = ask_multi(raw, RoleKeys, "go_backend")
          /\ LET role_def == RoleDef(role_key')
                 own      == IF lang = "zh" THEN role_def.role_zh ELSE role_def.role_en
                 \* a custom role is described by what is typed at the list prompts
                 role     == IF role_key' = "custom" THEN JoinLines(answers.lines)
                             ELSE IF own # "" THEN own ELSE role_def.role_en
             IN  cfg' = SetKey(SetKey(<<>>, "role", role), "persona_extras", answers.lines)
    /\ wizPc' = "steps"
    /\ stepNo' = 1
    /\ UNCHANGED <<cfg0, lang, doc, asmCount, asmLangs, stepsRun, answers, written, wizMsg, argv>>

\* wizard(): one turn of the loop over role_def["wizard_steps"]
WizardStep ==
    /\ wizPc = "steps"
    /\ stepNo <= Len(RoleDef(role_key).wizard_steps)
    /\ LET step_name == RoleDef(role_key).wizard_steps[stepNo]
       IN  IF step_name \in STEP_REGISTRY
             THEN /\ cfg' = step_fn(step_name, cfg, answers, lang)
                  /\ stepsRun' = Append(stepsRun, step_name)
             ELSE UNCHANGED <<cfg, stepsRun>>
    /\ stepNo' = stepNo + 1
    /\ UNCHANGED <<cfg0, lang, doc, asmCount, asmLangs, wizPc, role_key, answers, written, wizMsg,
                   argv>>

\* wizard() after the loop, assemble(cfg) and preview_and_save up to its
\* question
WizardFinish ==
    /\ wizPc = "steps"
    /\ stepNo > Len(RoleDef(role_key).wizard_steps)
    /\ cfg' = WizardDefaults(cfg, lang)
    /\ doc' = assemble(AsStrings(cfg'), lang)
    /\ wizPc' = "save"
    /\ UNCHANGED <<cfg0, lang, asmCount, asmLangs, role_key, stepNo, stepsRun, answers, written,
                   wizMsg, argv>>

\* the file preview_and_save has written once the choice is answered
WrittenOnChoice_early(choice, content, default_path) ==
    IF choice \in {"1", "2"} THEN [path |-> default_path, content |-> content] ELSE NoFile

WrittenOnChoice(choice, content, default_path) ==
    IF choice = "1" THEN [path |-> default_path, content |-> content] ELSE NoFile

\* preview_and_save: the answer to the save question
SaveChoice ==
    /\ wizPc = "save"
    /\ \E choice \in SaveChoices :
          /\ written' = WrittenOnChoice(choice, doc, "CLAUDE.md")
          /\ wizPc' = IF choice = "2" THEN "path" ELSE "done"
          /\ wizMsg' = CASE choice = "1" -> "saved"
                         [] choice = "3" -> "printed"
                         [] OTHER        -> wizMsg
    /\ UNCHANGED <<cfg, cfg0, lang, doc, asmCount, asmLangs, role_key, stepNo, stepsRun, answers,
                   argv>>

\* preview_and_save: the answer to the path question
SavePath ==
    /\ wizPc = "path"
    /\ \E raw \in PathAnswers :
          written' = [path |-> IF raw = "" THEN "CLAUDE.md" ELSE raw, content |-> doc]
    /\ wizMsg' = "saved"
    /\ wizPc' = "done"
    /\ UNCHANGED <<cfg, cfg0, lang, doc, asmCount, asmLangs, role_key, stepNo, stepsRun, answers,
                   argv>>

\* the prompts of the flow
AtPrompt ==
    \/ wizPc \in {"language", "role", "save", "path"}
    \/ wizPc = "steps" /\ stepNo <= Len(RoleDef(role_key).wizard_steps)

\* Ctrl+C at a prompt: the except clause of cmd_wizard; cmd_quick has none, so
\* the KeyboardInterrupt leaves main()
Interrupt ==
    /\ AtPrompt
    /\ IF argv.command = "wizard"
         THEN /\ wizMsg' = "cancelled"
              /\ cfg' = <<>>
              /\ doc' = NoDoc
         ELSE /\ wizMsg' = "Traceback"
              /\ UNCHANGED <<cfg, doc>>
    /\ wizPc' = "done"
    /\ UNCHANGED <<cfg0, lang, asmCount, asmLangs, role_key, stepNo, stepsRun, answers, written,
                   argv>>

----------------------------------------------------------------------------
(* A claim about malformed store files, checked under SpecMalformed *)

\* C20: when the store file is absent or malformed, list, search, use,
\* export, save and delete behave as if the store were empty and surface no
\* error, also when the file holds JSON that is not a keyed collection of
\* complete Template Records.
C20_MalformedStoreSilent == msg # "Traceback"

\* C23: the builder renders in exactly one of the three styles, and a style
\* answer that is empty or is none of 1, 2, 3 gives the first, tagged style.
C23_InvalidStyleIsTagged ==
    buildPc = "built" =>
        LET xml   == _build_xml_style(fields.role, fields.context, fields.task,
                                      fields.fmt, fields.constraints)
            md    == _build_markdown_style(fields.role, fields.context, fields.task,
                                           fields.fmt, fields.constraints)
            plain == _build_plain_style(fields.role, fields.context, fields.task,
                                        fields.fmt, fields.constraints)
        IN  /\ prompt \in {xml, md, plain}
            /\ styleInput \notin {"1", "2", "3"} => prompt = xml

----------------------------------------------------------------------------
(* A claim about interrupts in the prompt tool, checked under SpecBuild *)

\* C19: an interrupt at a question of the prompt builder is caught at the
\* builder's entry and reported as cancelled, and control returns to the
\* caller: the call never ends in an uncaught exception.
C19_BuilderInterruptCaught == buildPc \in {"start", "built", "cancelled"}

----------------------------------------------------------------------------
(* Claims about the wizard *)

\* the wizard has returned its mapping
WizardReturned ==
    /\ argv.command = "wizard"
    /\ wizPc \in {"save", "path"} \/ (wizPc = "done" /\ wizMsg # "cancelled")

\* C16: for every role of the registry the wizard calls exactly the step
\* functions its step list names, each once and in list order, none skipped;
\* every listed name resolves in the step registry.
C16_StepsInListOrder ==
    /\ \A r \in 1..Len(ROLE_DEFS) :
          \A j \in 1..Len(ROLE_DEFS[r].wizard_steps) :
              ROLE_DEFS[r].wizard_steps[j] \in STEP_REGISTRY
    /\ wizPc = "steps" =>
          stepsRun = SubSeq(RoleDef(role_key).wizard_steps, 1, stepNo - 1)
    /\ WizardReturned => stepsRun = RoleDef(role_key).wizard_steps

\* C16 witness: the wizard has run the twelve steps of the DevOps role, the
\* monitoring step among them
C16_Witness ==
    /\ wizPc = "save"
    /\ role_key = "devops_sre"
    /\ Len(stepsRun) = 12
    /\ stepsRun[7] = "monitoring"

\* the collected tech-stack text holds a g followed by an o, in either case
TechTextHasGo(c) ==
    \E i \in 1..Len(c["tech_items"]) :
        LET item == c["tech_items"][i]
        IN  \E j \in 1..(Len(item) - 1) :
                item[j] \in {"g", "G"} /\ item[j + 1] \in {"o", "O"}

\* C17: the mapping the wizard returns always has the thinking-strategy list
\* (the three default items, none being collected) and a verification list,
\* and the verification list is non-empty exactly when the collected
\* tech-stack text contains "go" without regard to case.
C17_DefaultsInstalled ==
    WizardReturned =>
        /\ "thinking_strategy" \in DOMAIN cfg
        /\ cfg["thinking_strategy"] = DefaultThinking(lang)
        /\ Len(cfg["thinking_strategy"]) = 3
        /\ "verification" \in DOMAIN cfg
        /\ "tech_items" \in DOMAIN cfg
        /\ (cfg["verification"] # <<>>) <=> TechTextHasGo(cfg)

\* C17 witness: the Python role with GO typed in capitals has the verification
\* list installed
C17_Witness ==
    /\ wizPc = "save"
    /\ role_key = "python_backend"
    /\ answers.tech = <<"G", "O">>
    /\ Len(cfg["verification"]) = 4

\* C18: an interrupt at a prompt of the wizard flow ends it with the
\* cancelled message, and no file has been written then or afterwards.
C18_InterruptWritesNothing ==
    /\ wizMsg = "cancelled" => (wizPc = "done" /\ written = NoFile)
    /\ written # NoFile => wizMsg = "saved"

\* C18 witness: the flow was interrupted after the document had been
\* assembled, at the save question or at the path question
C18_Witness ==
    /\ wizMsg = "cancelled"
    /\ role_key # ""
    /\ stepsRun = RoleDef(role_key).wizard_steps
    /\ written = NoFile

\* the keys a step function assigns, whatever is answered
WrittenKeys ==
    [s \in STEP_REGISTRY |->
        UNION {DOMAIN step_fn(s, <<>>, a, lg) : a \in AnswerScripts, lg \in Langs}]

\* C29: within the step list of a role no two steps write the same key and
\* no step writes role or persona_extras, which are set before the steps
\* run; so when a step is about to run, none of the keys it writes is in the
\* mapping yet, and no answer is overwritten by a later step.
C29_NoStepOverwrites ==
    /\ \A r \in 1..Len(ROLE_DEFS) :
          LET steps == ROLE_DEFS[r].wizard_steps
          IN  \A i \in 1..Len(steps) :
                  /\ WrittenKeys[steps[i]] \cap {"role", "persona_extras"} = {}
                  /\ \A j \in (i + 1)..Len(steps) :
                        WrittenKeys[steps[i]] \cap WrittenKeys[steps[j]] = {}
    /\ wizPc = "steps" =>
          /\ {"role", "persona_extras"} \subseteq DOMAIN cfg
          /\ cfg["persona_extras"] = answers.lines
          /\ stepNo <= Len(RoleDef(role_key).wizard_steps) =>
                WrittenKeys[RoleDef(role_key).wizard_steps[stepNo]] \cap DOMAIN cfg = {}

\* C29 witness: the DevOps role after its IaC and monitoring steps: the three
\* keys they wrote are in the mapping and the security step is next
C29_Witness ==
    /\ wizPc = "steps"
    /\ role_key = "devops_sre"
    /\ RoleDef(role_key).wizard_steps[stepNo] = "security"
    /\ {"core_rules", "code_style_rules", "testing_rules"} \subseteq DOMAIN cfg
    /\ cfg["testing_rules"] = <<"r1">>

----------------------------------------------------------------------------
(* Two runs of the tool side by side on one store file.  A run that saves or *)
(* deletes reads the file, waits for its answers, and later writes the file  *)
(* whole; the write opens the file, which empties it, and then puts the text *)
(* in.  Between these steps, and while a run waits for an answer, the other  *)
(* run may read, open or write the file and print its messages.  shown is    *)
(* what the step just taken listed, msg the message printed last.            *)

Runs == {1, 2}

\* the ids the runs type: two that are new, one saved earlier and one of
\* invalid syntax
SaverIds == {<<"sql">>, <<"my_debug", "2">>, <<"9", "x">>}

SaverTexts == {<<"w">>, Placeholder(<<"a">>)}

DeleterIds == {<<"my_debug">>, <<"sql">>}

DeleterConfirms == {"y", "n"}

EmptyMeta == [name |-> <<>>, category |-> "", description |-> <<>>]

\* a store file that holds one record, saved earlier
OneRecordFile ==
    save_custom_templates(
        SaveLocal(AbsentFile, <<"my_debug">>, NewRecord(<<"w">>, <<"my_debug">>, EmptyMeta, <<>>)))

\* what a run is asked to do
RunInputs ==
    {[pc |-> "start", op |-> "save", id |-> i, text |-> t, confirm |-> "", local |-> <<>>] :
        i \in SaverIds, t \in SaverTexts}
    \cup
    {[pc |-> "start", op |-> "delete", id |-> i, text |-> <<>>, confirm |-> a, local |-> <<>>] :
        i \in DeleterIds, a \in DeleterConfirms}

NoRun == [pc |-> "off", op |-> "", id |-> <<>>, text |-> <<>>, confirm |-> "", local |-> <<>>]

RaceIdle ==
    /\ runs = [p \in Runs |-> NoRun]
    /\ runLog = <<>>
    /\ store0 = <<>>

RaceStart ==
    /\ runs \in [Runs -> RunInputs]
    /\ runLog = <<>>
    /\ file \in {AbsentFile, OneRecordFile}
    /\ store0 = load_custom_templates(file)
    /\ builtin = BUILTIN_TEMPLATES
    /\ lastOp = NoOp
    /\ msg = "none"
    /\ shown = NoShown
    /\ saved = <<>>

\* the number of bytes of a token in UTF-8; the two defaults of
\* _save_as_custom_template are Chinese, of three and five characters
Utf8Len(tok) ==
    CASE tok = "Zidingyi"       -> 9
      [] tok = "Zidingyi Moban" -> 15
      [] OTHER                  -> Len(tok)

RECURSIVE BytesOf(_)
BytesOf(text) == IF text = <<>> THEN 0 ELSE Utf8Len(Head(text)) + BytesOf(Tail(text))

\* the bytes of one "id": {...} member of json.dumps(templates, indent=2)
RECURSIVE VariablesBytes(_)
VariablesBytes(variables) ==
    IF variables = <<>> THEN 0
    ELSE 8 + BytesOf(JsonEscape(Head(variables))) + VariablesBytes(Tail(variables))

RecordBytes(id, r) ==
    8 + BytesOf(JsonEscape(id))
    + 16 + BytesOf(JsonEscape(r.name))
    + 20 + Utf8Len(r.category)
    + 23 + BytesOf(JsonEscape(r.description))
    + 17 + (IF r.variables = <<>> THEN 2
            ELSE 2 + VariablesBytes(r.variables) + 2 * (Len(r.variables) - 1) + 6) + 2
    + 17 + BytesOf(JsonEscape(r.template)) + 2
    + 3

RECURSIVE RecordsBytes(_)
RecordsBytes(d) ==
    IF d = <<>> THEN 0 ELSE RecordBytes(d[1].key, d[1].val) + RecordsBytes(Tail(d))

\* the length in bytes of the text save_custom_templates writes
DumpBytes(d) == IF d = <<>> THEN 2 ELSE 2 + RecordsBytes(d) + 2 * (Len(d) - 1) + 2

\* _save_as_custom_template of run p up to and including load_custom_templates()
\* and the assignment of the new record
SaveRead(p) ==
    /\ runs[p].pc = "start"
    /\ runs[p].op = "save"
    /\ lastOp' = [op |-> "save", id |-> runs[p].id, confirm |-> "", arg |-> <<>>]
    /\ IF ~MatchesIdSyntax(runs[p].id)
         THEN /\ runs' = [runs EXCEPT ![p].pc = "done"]
              /\ msg' = "invalid_id"
              /\ UNCHANGED runLog
         ELSE /\ \E variables \in ListsOfSet({FindPlaceholders(runs[p].text)[i] :
                                      i \in 1..Len(FindPlaceholders(runs[p].text))}) :
                    runs' = [runs EXCEPT
                               ![p].pc = "loaded",
                               ![p].local = SaveLocal(file, runs[p].id,
                                               NewRecord(runs[p].text, runs[p].id,
                                                         EmptyMeta, variables))]
              /\ runLog' = Append(runLog, <<p, "load">>)
              /\ UNCHANGED msg
    /\ shown' = NoShown
    /\ UNCHANGED <<file, builtin, saved, store0>>

\* delete_custom_template of run p up to its first wait: load_custom_templates()
\* and, when the store is not empty, the list of the custom ids
DeleteRead(p) ==
    /\ runs[p].pc = "start"
    /\ runs[p].op = "delete"
    /\ LET custom == load_custom_templates(file)
       IN  /\ lastOp' = [op |-> "delete", id |-> <<>>, confirm |-> "", arg |-> <<>>]
           /\ runLog' = Append(runLog, <<p, "load">>)
           /\ shown' = KeysOf(custom)
           /\ IF custom = <<>>
                THEN /\ runs' = [runs EXCEPT ![p].pc = "done"]
                     /\ msg' = "nothing_to_delete"
                ELSE /\ runs' = [runs EXCEPT ![p].pc = "listed", ![p].local = custom]
                     /\ UNCHANGED msg
    /\ UNCHANGED <<file, builtin, saved, store0>>

\* delete_custom_template of run p: the answer template_id arrives and is
\* looked up in the dict the run loaded before the wait
DeleteAnswer(p) ==
    /\ runs[p].pc = "listed"
    /\ lastOp' = [op |-> "delete", id |-> runs[p].id, confirm |-> "", arg |-> <<>>]
    /\ shown' = NoShown
    /\ IF DictHas(runs[p].local, runs[p].id)
         THEN /\ runs' = [runs EXCEPT ![p].pc = "confirming"]
              /\ UNCHANGED msg
         ELSE /\ runs' = [runs EXCEPT ![p].pc = "done"]
              /\ msg' = "not_found"
    /\ UNCHANGED <<file, builtin, saved, runLog, store0>>

\* delete_custom_template of run p: the answer confirm arrives; on y the
\* record leaves the dict the run loaded, which is then to be written
DeleteConfirm(p) ==
    /\ runs[p].pc = "confirming"
    /\ lastOp' = [op |-> "delete", id |-> runs[p].id, confirm |-> runs[p].confirm,
                  arg |-> <<>>]
    /\ shown' = NoShown
    /\ IF Lower(runs[p].confirm) = "y"
         THEN /\ runs' = [runs EXCEPT ![p].pc = "loaded",
                                      ![p].local = DictDel(runs[p].local, runs[p].id)]
              /\ UNCHANGED msg
         ELSE /\ runs' = [runs EXCEPT ![p].pc = "done"]
              /\ msg' = "delete_cancelled"
    /\ UNCHANGED <<file, builtin, saved, runLog, store0>>

\* save_custom_templates of run p, first half: write_text opens the file for
\* writing, which leaves it empty; an empty file loads as {}
StoreOpen(p) ==
    /\ runs[p].pc = "loaded"
    /\ file' = GarbageFile
    /\ runs' = [runs EXCEPT ![p].pc = "writing"]
    /\ runLog' = Append(runLog, <<p, "open">>)
    /\ shown' = NoShown
    /\ UNCHANGED <<builtin, lastOp, msg, saved, store0>>

\* the file after run p has put text d at its start: a longer text that the
\* other run put there in the meantime keeps its tail, and the file is then
\* no JSON
Overwritten(f, d) ==
    IF f.kind = "json" /\ DumpBytes(load_custom_templates(f)) > DumpBytes(d)
      THEN GarbageFile
      ELSE save_custom_templates(d)

\* save_custom_templates of run p, second half: the text is written and the
\* file closed
StoreWrite(p) ==
    /\ runs[p].pc = "writing"
    /\ saved' = runs[p].local
    /\ file' = Overwritten(file, saved')
    /\ msg' = IF runs[p].op = "save" THEN "saved" ELSE "deleted"
    /\ runs' = [runs EXCEPT ![p].pc = "done"]
    /\ runLog' = Append(runLog, <<p, "write">>)
    /\ shown' = NoShown
    /\ UNCHANGED <<builtin, lastOp, store0>>

\* where a step of a run stands in the log
Pos(p, step) == CHOOSE i \in 1..Len(runLog) : runLog[i] = <<p, step>>

\* both runs have saved, under different ids, p writing before q
BothSaved(p, q) ==
    /\ p # q
    /\ runs[p].op = "save" /\ runs[q].op = "save"
    /\ runs[p].pc = "done" /\ runs[q].pc = "done"
    /\ MatchesIdSyntax(runs[p].id) /\ MatchesIdSyntax(runs[q].id)
    /\ runs[p].id # runs[q].id
    /\ Pos(p, "write") < Pos(q, "write")

\* C27: a save is a whole-store read-modify-write without locking.  When two
\* runs save different new ids one after the other, the store holds both
\* records and every record it held before.  When the last writer read the
\* file before the first had written it, the record of the first writer is
\* lost; what is left in the store is then the record of the last writer
\* with the records the last writer had read, or nothing at all.
C27_LastWriterWins ==
    \A p, q \in Runs :
        BothSaved(p, q) =>
            LET store == load_custom_templates(file)
            IN  /\ Pos(p, "write") < Pos(q, "load") =>
                      /\ DictHas(store, runs[p].id)
                      /\ DictHas(store, runs[q].id)
                      /\ \A i \in 1..Len(store0) : DictHas(store, store0[i].key)
                /\ Pos(q, "load") < Pos(p, "write") =>
                      /\ ~DictHas(store, runs[p].id)
                      /\ store # <<>> => store = runs[q].local
                /\ store # <<>> =>
                      /\ DictHas(store, runs[q].id)
                      /\ DictGet(store, runs[q].id).template = runs[q].text

\* C27 witness: run 2 read the file before run 1 wrote it and wrote after it;
\* the record of run 1 is gone, the one saved earlier is still there
C27_Witness ==
    /\ BothSaved(1, 2)
    /\ Pos(2, "load") < Pos(1, "write")
    /\ ~DictHas(load_custom_templates(file), runs[1].id)
    /\ DictHas(load_custom_templates(file), runs[2].id)
    /\ DictHas(load_custom_templates(file), <<"my_debug">>)

----------------------------------------------------------------------------
(* Claims about the command line of the two tools, checked under SpecTools *)

\* quick was given a name that has no preset
UnknownPreset == argv.command = "quick" /\ argv.preset \notin PRESET_FACTORIES

\* C24: given an unknown identifier the operation is not performed and
\* control returns normally: cmd_quick with a preset name that has no preset
\* assembles and writes nothing, and use_template with an id absent from the
\* merged catalog prompts for no variable, renders nothing and writes
\* nothing; the persisted store is unchanged in both cases.
C24_UnknownIdNotPerformed ==
    /\ [](UnknownPreset /\ wizPc # "main" =>
             /\ wizPc = "done"
             /\ wizMsg = "unknown_preset"
             /\ cfg = <<>>
             /\ doc = NoDoc
             /\ written = NoFile
             /\ file = AbsentFile)
    /\ [][lastOp'.op = "use" /\ ~GetAllRaises(file)
             /\ ~DictHas(get_all_templates(builtin, file), lastOp'.id) =>
             /\ msg' = "not_exist"
             /\ shown' = NoShown
             /\ file' = file
             /\ saved' = saved]_vars

\* C24 witness: with a custom record in the store, an id that is in neither
\* catalog was asked for and reported as not existing
C24_Witness ==
    /\ lastOp.op = "use"
    /\ lastOp.id = <<"9", "x">>
    /\ msg = "not_exist"
    /\ load_custom_templates(file) # <<>>
    /\ ~DictHas(get_all_templates(builtin, file), lastOp.id)

\* C25: when --en is given on the command line, the _LANG flag in force when
\* the document is assembled is English, for wizard, quick and example and
\* whatever is answered at the prompts.
C25_EnFlagEnglish == argv.en /\ doc # NoDoc => lang = "en"

----------------------------------------------------------------------------
(* A claim about the locale flag, checked under SpecLocale *)

\* the title keys of the sections of a document that have a body, in
\* document order
RECURSIVE SectionsFrom(_, _, _)
SectionsFrom(d, i, lg) ==
    IF i > Len(d) THEN <<>>
    ELSE (IF IsHeader(d[i], lg) /\ HasBody(d, i, lg) THEN <<HeaderKey(d[i], lg)>> ELSE <<>>)
         \o SectionsFrom(d, i + 1, lg)

\* the (zh, en) pairs of the field labels the renderers generate
FieldLabels ==
    {<<"Leixing", "Type">>, <<"Zhuangtai", "Status">>}
    \cup {<<LegacyTech[i][2], LegacyTech[i][3]>> : i \in 1..Len(LegacyTech)}

\* a list line that carries the label, before one of the mapping's strings
IsLabelled(line, label, c) ==
    \E k \in DOMAIN c \cap StrKeys : line = "- **" \o label \o "**: " \o c[k]

\* C26: rendering the same mapping first under one locale flag and then under
\* the other gives two documents with the same non-empty sections in the same
\* order, and every section title and every renderer-generated field label
\* of each document is that of the table of the flag it was rendered under.
C26_LocaleSwitch ==
    (Len(asmLangs) = 2 /\ asmLangs[1] # asmLangs[2]) =>
        LET first == assemble(cfg0, asmLangs[1])
            other == asmLangs[1]
        IN  /\ SectionsFrom(doc, 1, asmLangs[2]) = SectionsFrom(first, 1, asmLangs[1])
            /\ \A i \in 1..Len(doc) :
                  /\ ~IsHeader(doc[i], other)
                  /\ \A p \in FieldLabels : ~IsLabelled(doc[i], L(p[1], p[2], other), cfg0)

----------------------------------------------------------------------------
(* use_template, choice 1: copying the rendered prompt to the clipboard *)

\* the commands in the order they are tried; the last one is started outside
\* the loop
ClipCommands == <<"pbcopy", "xclip", "xsel", "clip">>

\* what starting a command can do: FileNotFoundError, another OSError, exit
\* status 0, another exit status
ClipOutcomes == {"missing", "oserror", "ok", "fails"}

ClipStart ==
    /\ clipEnv \in [{ClipCommands[i] : i \in 1..Len(ClipCommands)} -> ClipOutcomes]
    /\ clipNext = 1
    /\ clipTried = <<>>
    /\ clipMsg = ""

\* no copy is under way
ClipIdle ==
    /\ clipEnv = <<>>
    /\ clipNext = 1
    /\ clipTried = <<>>
    /\ clipMsg = ""

\* the command's run ends the copy with the success message: the exit status
\* of the first three is read, that of clip is not
ReportsCopied(cmd, outcome) ==
    IF cmd = "clip" THEN outcome \in {"ok", "fails"} ELSE outcome = "ok"

\* one candidate is started; after the last one the warning is printed
TryClipboard ==
    /\ clipMsg = ""
    /\ clipNext <= Len(ClipCommands)
    /\ LET cmd     == ClipCommands[clipNext]
           outcome == clipEnv[cmd]
       IN  /\ clipTried' = Append(clipTried, cmd)
           /\ clipNext' = clipNext + 1
           /\ clipMsg' =
                 IF ReportsCopied(cmd, outcome) THEN "copied"
                 ELSE IF outcome = "oserror" THEN "copy_failed"
                 ELSE IF clipNext = Len(ClipCommands) THEN "copy_manually"
                 ELSE ""
    /\ UNCHANGED clipEnv

\* C21: the clipboard commands are tried in their fixed order, the copy stops
\* at the first that succeeds and success is reported only then; when every
\* command is missing or exits unsuccessfully the warning to copy manually is
\* shown.
C21_ClipboardFallback ==
    /\ clipTried = SubSeq(ClipCommands, 1, Len(clipTried))
    /\ clipMsg = "copied" =>
          /\ clipEnv[clipTried[Len(clipTried)]] = "ok"
          /\ \A i \in 1..(Len(clipTried) - 1) : clipEnv[clipTried[i]] # "ok"
    /\ (clipNext > Len(ClipCommands)
          /\ \A i \in 1..Len(ClipCommands) : clipEnv[ClipCommands[i]] \in {"missing", "fails"})
          => clipMsg = "copy_manually"

----------------------------------------------------------------------------
(* Specifications.  The two tools are separate programs; each specification *)
(* runs one of their components and leaves the others idle.                 *)

InitAsm == AsmStart /\ UseIdle /\ BuildIdle /\ StoreIdle /\ WizIdle /\ ClipIdle /\ AskIdle /\ RaceIdle

NextAsm == Assemble /\ UNCHANGED <<useVars, buildVars, storeVars, wizVars, clipVars, askVars, raceVars>>

SpecAsm == InitAsm /\ [][NextAsm]_vars

InitUse == UseStart /\ AsmIdle /\ BuildIdle /\ StoreIdle /\ WizIdle /\ ClipIdle /\ AskIdle /\ RaceIdle

NextUse == UseTemplate /\ UNCHANGED <<asmVars, buildVars, storeVars, wizVars, clipVars, askVars, raceVars>>

SpecUse == InitUse /\ [][NextUse]_vars

InitBuild == BuildStart /\ AsmIdle /\ UseIdle /\ StoreIdle /\ WizIdle /\ ClipIdle /\ AskIdle /\ RaceIdle

NextBuild ==
    \/ BuildPrompt /\ UNCHANGED <<asmVars, useVars, storeVars, wizVars, clipVars, askVars, raceVars>>
    \/ BuildInterrupt /\ UNCHANGED <<asmVars, useVars, storeVars, wizVars, clipVars, askVars, raceVars>>

SpecBuild == InitBuild /\ [][NextBuild]_vars

InitStore == StoreStart /\ AsmIdle /\ UseIdle /\ BuildIdle /\ WizIdle /\ ClipIdle /\ AskIdle /\ RaceIdle

NextStore ==
    \/ ListTemplates /\ UNCHANGED <<asmVars, useVars, buildVars, wizVars, clipVars, askVars, raceVars>>
    \/ SearchTemplates /\ UNCHANGED <<asmVars, useVars, buildVars, wizVars, clipVars, askVars, raceVars>>
    \/ UseStoredTemplate /\ UNCHANGED <<asmVars, useVars, buildVars, wizVars, clipVars, askVars, raceVars>>
    \/ ExportTemplates /\ UNCHANGED <<asmVars, useVars, buildVars, wizVars, clipVars, askVars, raceVars>>
    \/ BuildPromptSave /\ UNCHANGED <<asmVars, useVars, buildVars, wizVars, clipVars, askVars, raceVars>>
    \/ DeleteCustomTemplate /\ UNCHANGED <<asmVars, useVars, buildVars, wizVars, clipVars, askVars, raceVars>>

SpecStore == InitStore /\ [][NextStore]_vars

\* the store tool started on a store file that some other program wrote
InitMalformed == MalformedStart /\ AsmIdle /\ UseIdle /\ BuildIdle /\ WizIdle /\ ClipIdle /\ AskIdle /\ RaceIdle

SpecMalformed == InitMalformed /\ [][NextStore]_vars

\* claudemd_generator.py is started with a command line; _LANG = "zh"
InitWizard ==
    /\ WizStart
    /\ cfg = <<>>
    /\ cfg0 = <<>>
    /\ lang = "zh"
    /\ doc = NoDoc
    /\ asmCount = 0
    /\ asmLangs = <<>>
    /\ UseIdle /\ BuildIdle /\ StoreIdle /\ ClipIdle /\ AskIdle /\ RaceIdle

NextWizard ==
    \/ CmdWizard /\ UNCHANGED <<useVars, buildVars, storeVars, clipVars, askVars, raceVars>>
    \/ CmdQuick /\ UNCHANGED <<useVars, buildVars, storeVars, clipVars, askVars, raceVars>>
    \/ CmdExample /\ UNCHANGED <<useVars, buildVars, storeVars, clipVars, askVars, raceVars>>
    \/ WizardLanguage /\ UNCHANGED <<useVars, buildVars, storeVars, clipVars, askVars, raceVars>>
    \/ WizardRole /\ UNCHANGED <<useVars, buildVars, storeVars, clipVars, askVars, raceVars>>
    \/ WizardStep /\ UNCHANGED <<useVars, buildVars, storeVars, clipVars, askVars, raceVars>>
    \/ WizardFinish /\ UNCHANGED <<useVars, buildVars, storeVars, clipVars, askVars, raceVars>>
    \/ SaveChoice /\ UNCHANGED <<useVars, buildVars, storeVars, clipVars, askVars, raceVars>>
    \/ SavePath /\ UNCHANGED <<useVars, buildVars, storeVars, clipVars, askVars, raceVars>>
    \/ Interrupt /\ UNCHANGED <<useVars, buildVars, storeVars, clipVars, askVars, raceVars>>

SpecWizard == InitWizard /\ [][NextWizard]_vars

\* one of the two tools is started: claudemd_generator.py with a command
\* line, or prompt_generator.py on its store
InitTools == InitWizard \/ InitStore

\* the tool that was started takes the steps
NextTools == (wizPc # "off" /\ NextWizard) \/ (wizPc = "off" /\ NextStore)

SpecTools == InitTools /\ [][NextTools]_vars

\* a mapping is rendered, the flag is set, the mapping is rendered again
InitLocale == AsmStart /\ UseIdle /\ BuildIdle /\ StoreIdle /\ WizIdle /\ ClipIdle /\ AskIdle /\ RaceIdle

NextLocale ==
    \/ Assemble /\ UNCHANGED <<useVars, buildVars, storeVars, wizVars, clipVars, askVars, raceVars>>
    \/ SetLang /\ UNCHANGED <<useVars, buildVars, storeVars, wizVars, clipVars, askVars, raceVars>>

SpecLocale == InitLocale /\ [][NextLocale]_vars

\* two runs of prompt_generator.py save into, or delete from, the same store file
InitRace ==
    RaceStart /\ AsmIdle /\ UseIdle /\ BuildIdle /\ WizIdle /\ ClipIdle /\ AskIdle

NextRace ==
    \E p \in Runs :
        \/ SaveRead(p) /\ UNCHANGED <<asmVars, useVars, buildVars, wizVars, clipVars, askVars>>
        \/ DeleteRead(p) /\ UNCHANGED <<asmVars, useVars, buildVars, wizVars, clipVars, askVars>>
        \/ DeleteAnswer(p) /\ UNCHANGED <<asmVars, useVars, buildVars, wizVars, clipVars, askVars>>
        \/ DeleteConfirm(p) /\ UNCHANGED <<asmVars, useVars, buildVars, wizVars, clipVars, askVars>>
        \/ StoreOpen(p) /\ UNCHANGED <<asmVars, useVars, buildVars, wizVars, clipVars, askVars>>
        \/ StoreWrite(p) /\ UNCHANGED <<asmVars, useVars, buildVars, wizVars, clipVars, askVars>>

SpecRace == InitRace /\ [][NextRace]_vars

InitClip ==
    ClipStart /\ AsmIdle /\ UseIdle /\ BuildIdle /\ StoreIdle /\ WizIdle /\ AskIdle /\ RaceIdle

NextClip ==
    TryClipboard /\ UNCHANGED <<asmVars, useVars, buildVars, storeVars, wizVars, askVars, raceVars>>

SpecClip == InitClip /\ [][NextClip]_vars

InitAsk ==
    AskStart /\ AsmIdle /\ UseIdle /\ BuildIdle /\ StoreIdle /\ WizIdle /\ ClipIdle
    /\ RaceIdle

NextAsk ==
    AskMulti /\ UNCHANGED <<asmVars, useVars, buildVars, storeVars, wizVars, clipVars,
                           raceVars>>

SpecAsk == InitAsk /\ [][NextAsk]_vars

====
